---- MODULE Spec2Model ----
(***************************************************************************)
(* A model of the order, return and inventory handlers of the NILA shop    *)
(* backend (src/app.py).  The realtime database is the shared state; every *)
(* HTTP request is a process whose steps are the stretches of handler code *)
(* between two database calls, so requests interleave exactly at the       *)
(* database calls, as they do between the server's worker threads.         *)
(***************************************************************************)
EXTENDS Integers, Sequences, FiniteSets, TLC

(***************************************************************************)
(* Bounds of the model.                                                    *)
(***************************************************************************)
MaxQty == 2         \* largest quantity on a stored cart line
MaxStock == 1       \* largest availableStock in the initial catalog
MaxCartLen == 2     \* longest stored cart
NumIds == 2         \* random draws of generate_unique_id range over 0..NumIds-1

(***************************************************************************)
(* Program constants.                                                      *)
(***************************************************************************)
NumDigits == 5      \* num_digits in generate_unique_id

(***************************************************************************)
(* Strings the code takes apart character by character (e-mail addresses)  *)
(* are sequences of one-character strings.                                 *)
(***************************************************************************)
AliceEmail == <<"a", "@", "x", ".", "c", "o">>
AliceName == <<"A", "l", " ", "B">>
GuestEmail == <<"g", "_", "1", "@", "x", ".", "c", "o">>
\* a phone number validate_phone accepts, and the absent session key
SamplePhone == <<"9", "0", "0", "0", "0", "0", "0", "0", "0", "1">>
NoPhone == <<>>

\* str.replace(old, new) for one-character old and new
Replace(s, old, new) == [i \in DOMAIN s |-> IF s[i] = old THEN new ELSE s[i]]

\* safe_email_key = user_email.replace('.', '_')
SafeEmailKey(user_email) == Replace(user_email, ".", "_")

(***************************************************************************)
(* Dictionaries are functions; Put is d[k] = v.                            *)
(***************************************************************************)
EmptyDict == [k \in {} |-> 0]
Put(d, k, v) == [x \in (DOMAIN d) \cup {k} |-> IF x = k THEN v ELSE d[x]]

(***************************************************************************)
(* The catalog: the first two sample products of setup_database, with      *)
(* their names and prices.  item009 is a product id no catalog entry has.  *)
(***************************************************************************)
CatalogIds == {"item001", "item002"}
CartIds == CatalogIds \cup {"item009"}

SampleProduct(product_id, stock) ==
    IF product_id = "item001"
    THEN [name |-> "Ethereal Silk Saree", price |-> 4999, availableStock |-> stock]
    ELSE [name |-> "Urban Comfort Kurti", price |-> 1299, availableStock |-> stock]

\* a stored cart line, as the client writes it: the product id and a
\* positive integer quantity (the name it carries appears only in messages)
\* the quantity of a line whose product the catalog lacks is never read: such
\* a line is dropped whatever it asks for
CartLines ==
    [id : CatalogIds, quantity : 1..MaxQty]
        \cup [id : CartIds \ CatalogIds, quantity : {1}]

CartSpace == UNION {[1..n -> CartLines] : n \in 0..MaxCartLen}

\* users/<key>/order_details/shipping_address: address id -> address
HomeAddress == [line |-> "12 Anna Salai", phone |-> "9000000001"]
OtherAddress == [line |-> "7 Silk Route", phone |-> "9000000002"]
NoAddress == [line |-> "", phone |-> ""]
ShippingAddresses == [a \in {"addr1"} |-> HomeAddress]
\* address_id of a request body: missing, one of the user's, an unknown one
AddressInputs == {"", "addr1", "addr9"}

OrderStatuses == {"Shipped", "Out for Delivery", "Delivered"}
\* the categories of existing_ids
IdTypes == {"orders", "invoices", "returns", "job_applications"}

(***************************************************************************)
(* Sessions (the signed cookie a request arrives with) and the requests    *)
(* the model follows: each runs one handler, at any time, in any session.  *)
(***************************************************************************)
SessionIds == {"anon", "alice", "guest"}
Reqs == {"r1", "r2"}

VARIABLES
    session,        \* session id -> the session's keys
    users,          \* users/<safe_email_key>
    stockitems,     \* stockitems/<product id>
    existing_ids,   \* existing_ids/<category>: the set of reserved ids
    stock_notifications,    \* stock_notifications/<product id>: the waitlist keys
    bucket,         \* the object store: the set of object keys it holds
    outbox,         \* the mails handed to the SMTP server, in the order sent
    now,            \* the wall clock, in hours
    pc,             \* request slot -> where its handler stands
    loc,            \* request slot -> the handler's local variables
    resp            \* request slot -> the response, once the handler returned

vars == <<session, users, stockitems, existing_ids, stock_notifications, bucket, outbox,
          now, pc, loc, resp>>
stored == <<users, stockitems, existing_ids>>
\* what neither place_order nor the clock touches
aside == <<session, stock_notifications, bucket, outbox>>

(***************************************************************************)
(* Time: a datetime is a number of hours; a '%d-%b-%Y' string carries the  *)
(* calendar day only.                                                      *)
(***************************************************************************)
HoursPerDay == 24

\* datetime.strftime('%d-%b-%Y'): the day, the time of day is dropped
Strftime(t) == t \div HoursPerDay

\* datetime.strptime(s, '%d-%b-%Y'): midnight of that day
Strptime(day) == day * HoursPerDay

(***************************************************************************)
(* generate_unique_id: prefix + zero-padded random decimal.                *)
(***************************************************************************)
RECURSIVE Zfill(_, _)
Zfill(s, width) == IF Len(s) >= width THEN s ELSE Zfill("0" \o s, width)

\* the draw is not padded
M_NewId(prefix, n) == prefix \o ToString(n)

NewId(prefix, n) == prefix \o Zfill(ToString(n), NumDigits)

\* the probe answers that the id is free, whatever is reserved
M_IdIsFree(id_type, new_id) == TRUE

\* `not id_ref.child(new_id).get()`
IdIsFree(id_type, new_id) == new_id \notin existing_ids[id_type]

(***************************************************************************)
(* Cart validation of place_order (the for loop over cart_items).          *)
(***************************************************************************)
NoValidation ==
    [validated_cart |-> <<>>, adjustments_made |-> <<>>, cart_was_modified |-> FALSE]

\* adjustments_made.append(...): which adjustment, of which line, to what
Adjustment(kind, product_id, n) == [kind |-> kind, id |-> product_id, n |-> n]

\* the reduction is reported but the line keeps its quantity
M_ClampQuantity(item, current_stock) == item

\* `item['quantity'] = current_stock`
ClampQuantity(item, current_stock) == [item EXCEPT !.quantity = current_stock]

\* `if current_stock <= 0`, off by one
M_OutOfStock(current_stock) == current_stock <= 1

\* `if current_stock <= 0`
OutOfStock(current_stock) == current_stock <= 0

\* `if item['quantity'] > current_stock`, with the test one too lax
M_ExceedsStock(quantity, current_stock) == quantity > current_stock + 1

\* `if item['quantity'] > current_stock`
ExceedsStock(quantity, current_stock) == quantity > current_stock

\* one iteration of the loop
ValidateItem(item, all_products, acc) ==
    IF item.id \notin DOMAIN all_products
    THEN [acc EXCEPT
            !.adjustments_made = Append(@, Adjustment("unavailable", item.id, 0)),
            !.cart_was_modified = TRUE]
    ELSE LET current_stock == all_products[item.id].availableStock IN
         IF OutOfStock(current_stock)
         THEN [acc EXCEPT
                 !.adjustments_made = Append(@, Adjustment("out_of_stock", item.id, 0)),
                 !.cart_was_modified = TRUE]
         ELSE IF ExceedsStock(item.quantity, current_stock)
         THEN [validated_cart |-> Append(acc.validated_cart, ClampQuantity(item, current_stock)),
               adjustments_made |-> Append(acc.adjustments_made,
                                            Adjustment("reduced", item.id, current_stock)),
               cart_was_modified |-> TRUE]
         ELSE [acc EXCEPT !.validated_cart = Append(@, item)]

RECURSIVE ValidateLoop(_, _, _, _)
ValidateLoop(cart_items, all_products, i, acc) ==
    IF i > Len(cart_items) THEN acc
    ELSE ValidateLoop(cart_items, all_products, i + 1,
                      ValidateItem(cart_items[i], all_products, acc))

ValidateCart(cart_items, all_products) ==
    ValidateLoop(cart_items, all_products, 1, NoValidation)

(***************************************************************************)
(* Totals, line items and stock updates of place_order (the second loop).  *)
(***************************************************************************)
\* the quantity is left out of the line's price
M_LinePrice(product_in_db, quantity) == product_in_db.price

\* `product_in_db['price'] * quantity`
LinePrice(product_in_db, quantity) == product_in_db.price * quantity

RECURSIVE TotalPrice(_, _)
TotalPrice(validated_cart, all_products) ==
    IF validated_cart = <<>> THEN 0
    ELSE LinePrice(all_products[Head(validated_cart).id], Head(validated_cart).quantity)
         + TotalPrice(Tail(validated_cart), all_products)

OrderItemsDetails(validated_cart, all_products) ==
    [i \in DOMAIN validated_cart |->
        [id |-> validated_cart[i].id,
         name |-> all_products[validated_cart[i].id].name,
         price |-> all_products[validated_cart[i].id].price,
         quantity |-> validated_cart[i].quantity]]

\* stock_updates[f'{product_id}/availableStock'] = availableStock - quantity:
\* a dict, so a later line of the same product replaces the earlier entry
RECURSIVE StockUpdatesLoop(_, _, _, _)
StockUpdatesLoop(validated_cart, all_products, i, stock_updates) ==
    IF i > Len(validated_cart) THEN stock_updates
    ELSE StockUpdatesLoop(validated_cart, all_products, i + 1,
            Put(stock_updates, validated_cart[i].id,
                all_products[validated_cart[i].id].availableStock
                    - validated_cart[i].quantity))

StockUpdates(validated_cart, all_products) ==
    StockUpdatesLoop(validated_cart, all_products, 1, EmptyDict)

M_ApplyStockUpdates(items, stock_updates) == items

\* stock_ref.update(stock_updates)
ApplyStockUpdates(items, stock_updates) ==
    [p \in DOMAIN items |->
        IF p \in DOMAIN stock_updates
        THEN [items[p] EXCEPT !.availableStock = stock_updates[p]]
        ELSE items[p]]

(***************************************************************************)
(* Responses.                                                              *)
(***************************************************************************)
NoResp == [status |-> 0, success |-> FALSE, error |-> "", cart_updated |-> FALSE,
           updated_cart |-> <<>>, adjustments |-> <<>>, orderId |-> "", invoiceId |-> "",
           returnInvoiceId |-> "", applicationId |-> ""]

ErrorResp(status, error) == [NoResp EXCEPT !.status = status, !.error = error]

IdleLoc ==
    [handler |-> "", session_id |-> "", user_email |-> <<>>, address_id |-> "",
     cart_items |-> <<>>, orders |-> 0,
     all_products |-> EmptyDict,
     validated_cart |-> <<>>, adjustments_made |-> <<>>, cart_was_modified |-> FALSE,
     total_price |-> 0, order_items_details |-> <<>>, stock_updates |-> EmptyDict,
     order_id |-> "", invoice_id |-> "", order_data |-> EmptyDict,
     user_name |-> <<>>, shipping_address |-> NoAddress,
     address_type |-> "", contact_type |-> "", checked_at |-> -1,
     return_invoice_id |-> "", video_url |-> <<>>,
     application_id |-> "", job_id |-> "", product_id |-> "",
     restocked_products |-> <<>>, all_notifications |-> EmptyDict,
     user_notifications |-> EmptyDict,
     email |-> <<>>, stored_order_count |-> 0, actual_order_count |-> 0,
     current_data |-> {}, tries |-> 0,
     phone |-> NoPhone, name |-> <<>>,
     paths_to_delete |-> {}]

\* the locals of a handler that has returned before its first database write:
\* only the handler and the session of the request are kept
Left(handler, s) == [IdleLoc EXCEPT !.handler = handler, !.session_id = s]

Return(r, response) ==
    /\ pc' = [pc EXCEPT ![r] = "done"]
    /\ resp' = [resp EXCEPT ![r] = response]

M_LoggedIn(s) == TRUE

\* `session.get('logged_in')`
LoggedIn(s) == session[s].logged_in

(***************************************************************************)
(* place_order.                                                            *)
(***************************************************************************)
M_NoCartItems(cart_items) == FALSE

\* `if not cart_items`
NoCartItems(cart_items) == cart_items = <<>>

\* from the session check to `user_data = user_ref.get()` and the checks of
\* the cart and the address
PO_Enter(r, s, address_id) ==
    /\ pc[r] = "idle"
    /\ UNCHANGED <<aside, stored, now>>
    /\ IF ~LoggedIn(s)
       THEN /\ Return(r, ErrorResp(401, "User not logged in."))
            /\ loc' = [loc EXCEPT ![r] = Left("place_order", s)]
       ELSE LET user_email == session[s].user_email
                safe_email_key == SafeEmailKey(user_email)
                entered == [Left("place_order", s) EXCEPT !.user_email = user_email,
                                                          !.address_id = address_id]
            IN
            IF address_id = ""
            THEN /\ Return(r, ErrorResp(400, "Shipping address ID is required."))
                 /\ loc' = [loc EXCEPT ![r] = Left("place_order", s)]
            ELSE IF safe_email_key \notin DOMAIN users
            THEN /\ Return(r, ErrorResp(404, "User not found."))
                 /\ loc' = [loc EXCEPT ![r] = Left("place_order", s)]
            ELSE LET user_data == users[safe_email_key] IN
                 IF NoCartItems(user_data.cart_items)
                 THEN /\ Return(r, ErrorResp(400, "Your cart is empty."))
                      /\ loc' = [loc EXCEPT ![r] = Left("place_order", s)]
                 ELSE IF address_id \notin DOMAIN user_data.shipping_address
                 THEN /\ Return(r, ErrorResp(400, "Invalid shipping address selected."))
                      /\ loc' = [loc EXCEPT ![r] = Left("place_order", s)]
                 ELSE /\ pc' = [pc EXCEPT ![r] = "read_stock"]
                      /\ loc' = [loc EXCEPT ![r] =
                                    [entered EXCEPT
                                        !.cart_items = user_data.cart_items,
                                        !.orders = user_data.orders,
                                        !.user_name = user_data.name,
                                        !.shipping_address =
                                            user_data.shipping_address[address_id]]]
                      /\ UNCHANGED resp

\* `all_products_from_db = stock_ref.get()`, the validation loop and, on a
\* clean pass, the second loop
PO_Validate(r) ==
    /\ pc[r] = "read_stock"
    /\ UNCHANGED <<aside, stored, now>>
    /\ LET all_products == stockitems
           v == ValidateCart(loc[r].cart_items, all_products)
           validated == [loc[r] EXCEPT !.all_products = all_products,
                                       !.validated_cart = v.validated_cart,
                                       !.adjustments_made = v.adjustments_made,
                                       !.cart_was_modified = v.cart_was_modified]
       IN
       IF DOMAIN all_products = {}
       THEN /\ Return(r, ErrorResp(500, "Could not verify product catalog."))
            /\ UNCHANGED loc
       ELSE IF v.cart_was_modified
       THEN /\ pc' = [pc EXCEPT ![r] = "write_cart"]
            /\ loc' = [loc EXCEPT ![r] = validated]
            /\ UNCHANGED resp
       ELSE LET order_items_details == OrderItemsDetails(v.validated_cart, all_products) IN
            IF order_items_details = <<>>
            THEN /\ Return(r, ErrorResp(400, "All items in your cart are out of stock."))
                 /\ loc' = [loc EXCEPT ![r] = validated]
            ELSE /\ pc' = [pc EXCEPT ![r] = "gen_order_id"]
                 /\ loc' = [loc EXCEPT ![r] =
                        [validated EXCEPT
                            !.total_price = TotalPrice(v.validated_cart, all_products),
                            !.order_items_details = order_items_details,
                            !.stock_updates = StockUpdates(v.validated_cart, all_products)]]
                 /\ UNCHANGED resp

\* the cart as it was read is written back, not the validated one
M_PO_WriteCart(r) ==
    /\ pc[r] = "write_cart"
    /\ users' = [users EXCEPT ![SafeEmailKey(loc[r].user_email)].cart_items =
                                    loc[r].cart_items]
    /\ Return(r, [NoResp EXCEPT !.status = 409, !.error = "cart_changed",
                                !.cart_updated = TRUE,
                                !.updated_cart = loc[r].validated_cart,
                                !.adjustments = loc[r].adjustments_made])
    /\ UNCHANGED <<aside, stockitems, existing_ids, now, loc>>

\* `user_ref.child('cart_items').set(validated_cart)` and the 409 response
PO_WriteCart(r) ==
    /\ pc[r] = "write_cart"
    /\ users' = [users EXCEPT ![SafeEmailKey(loc[r].user_email)].cart_items =
                                    loc[r].validated_cart]
    /\ Return(r, [NoResp EXCEPT !.status = 409, !.error = "cart_changed",
                                !.cart_updated = TRUE,
                                !.updated_cart = loc[r].validated_cart,
                                !.adjustments = loc[r].adjustments_made])
    /\ UNCHANGED <<aside, stockitems, existing_ids, now, loc>>

\* one round of the loop of generate_unique_id('ORD', 'orders'): draw, probe
PO_GenOrderId(r, n) ==
    /\ pc[r] = "gen_order_id"
    /\ UNCHANGED <<aside, stored, now, resp>>
    /\ LET new_id == NewId("ORD", n) IN
       IF IdIsFree("orders", new_id)
       THEN /\ pc' = [pc EXCEPT ![r] = "gen_invoice_id"]
            /\ loc' = [loc EXCEPT ![r].order_id = new_id]
       ELSE UNCHANGED <<pc, loc>>

\* one round of the loop of generate_unique_id('INV', 'invoices')
PO_GenInvoiceId(r, n) ==
    /\ pc[r] = "gen_invoice_id"
    /\ UNCHANGED <<aside, stored, now, resp>>
    /\ LET new_id == NewId("INV", n) IN
       IF IdIsFree("invoices", new_id)
       THEN /\ pc' = [pc EXCEPT ![r] = "commit"]
            /\ loc' = [loc EXCEPT ![r].invoice_id = new_id]
       ELSE UNCHANGED <<pc, loc>>

\* an order without deliveryDate, without returnDetails
NoDate == -1
NoReturnDetails ==
    [reason |-> "", videoUrl |-> <<>>, pickupAddress |-> NoAddress, pickupContact |-> ""]

\* order_data, as built from the locals and the drawn status
OrderData(l, order_status, t) ==
    [orderId |-> l.order_id, invoiceId |-> l.invoice_id, status |-> order_status,
     items |-> l.order_items_details, shippingAddress |-> l.shipping_address,
     totalAmount |-> l.total_price,
     deliveryDate |-> IF order_status = "Delivered" THEN Strftime(t) ELSE NoDate,
     returnInvoiceId |-> "", returnDetails |-> NoReturnDetails]

\* the cart is not part of the update: it is left as it is
M_CommitUpdates(u, ids, l, order_data) ==
    /\ users' = [u EXCEPT ![SafeEmailKey(l.user_email)] =
                    [@ EXCEPT !.order_history = Put(@, l.order_id, order_data),
                              !.orders = l.orders + 1]]
    /\ existing_ids' = [ids EXCEPT !["orders"] = @ \cup {l.order_id},
                                   !["invoices"] = @ \cup {l.invoice_id}]

\* the multi-path update `db.reference().update(updates)`
CommitUpdates(u, ids, l, order_data) ==
    /\ users' = [u EXCEPT ![SafeEmailKey(l.user_email)] =
                    [@ EXCEPT !.order_history = Put(@, l.order_id, order_data),
                              !.cart_items = <<>>,
                              !.orders = l.orders + 1]]
    /\ existing_ids' = [ids EXCEPT !["orders"] = @ \cup {l.order_id},
                                   !["invoices"] = @ \cup {l.invoice_id}]

\* the draw of the status, order_data and the commit
PO_Commit(r, order_status) ==
    /\ pc[r] = "commit"
    /\ LET order_data == OrderData(loc[r], order_status, now) IN
       /\ CommitUpdates(users, existing_ids, loc[r], order_data)
       /\ loc' = [loc EXCEPT ![r].order_data = order_data]
    /\ pc' = [pc EXCEPT ![r] = "stock_update"]
    /\ UNCHANGED <<aside, stockitems, now, resp>>

\* `stock_ref.update(stock_updates)`, the confirmation mail and the response
PO_StockUpdate(r) ==
    /\ pc[r] = "stock_update"
    /\ stockitems' = ApplyStockUpdates(stockitems, loc[r].stock_updates)
    /\ Return(r, [NoResp EXCEPT !.status = 200, !.success = TRUE,
                                !.orderId = loc[r].order_id,
                                !.invoiceId = loc[r].invoice_id])
    /\ UNCHANGED <<aside, users, existing_ids, now, loc>>

\* the failure is met by a late write of the stock
M_PO_StockUpdateFails(r) ==
    /\ pc[r] = "stock_update"
    /\ stockitems' = ApplyStockUpdates(stockitems, loc[r].stock_updates)
    /\ Return(r, ErrorResp(500, "An unexpected error occurred while placing your order."))
    /\ UNCHANGED <<aside, users, existing_ids, now, loc>>

\* `stock_ref.update(stock_updates)` raises (the database is unreachable):
\* the `except Exception` of the handler answers, nothing is written
PO_StockUpdateFails(r) ==
    /\ pc[r] = "stock_update"
    /\ Return(r, ErrorResp(500, "An unexpected error occurred while placing your order."))
    /\ UNCHANGED <<aside, stored, now, loc>>

\* a mail composed by one of the send_*_email functions, and whether the SMTP
\* server took it (the functions return False when it did not)
Mail(kind, receiver_email, name, about, sent) ==
    [kind |-> kind, to |-> receiver_email, name |-> name, about |-> about,
     sent |-> sent]

\* what send_order_confirmation_email can come to: the SMTP server takes the
\* mail, the function returns False, or an exception leaves the function
MailOutcomes == {"sent", "refused", "raised"}

\* an exception of the mail reaches the `except Exception` of the handler
M_PO_StockUpdateAndMail(r, mail) ==
    /\ pc[r] = "stock_update"
    /\ stockitems' = ApplyStockUpdates(stockitems, loc[r].stock_updates)
    /\ outbox' = IF mail = "raised" THEN outbox
                 ELSE Append(outbox, Mail("order", loc[r].user_email,
                                          users[SafeEmailKey(loc[r].user_email)].name,
                                          <<loc[r].order_id, loc[r].invoice_id>>,
                                          mail = "sent"))
    /\ IF mail = "raised"
       THEN Return(r, ErrorResp(500, "An unexpected error occurred while placing your order."))
       ELSE Return(r, [NoResp EXCEPT !.status = 200, !.success = TRUE,
                                     !.orderId = loc[r].order_id,
                                     !.invoiceId = loc[r].invoice_id])
    /\ UNCHANGED <<session, stock_notifications, bucket, users, existing_ids, now, loc>>

\* `stock_ref.update(stock_updates)`, then send_order_confirmation_email with
\* its outcome inside `try ... except Exception as email_error`, then the
\* response
PO_StockUpdateAndMail(r, mail) ==
    /\ pc[r] = "stock_update"
    /\ stockitems' = ApplyStockUpdates(stockitems, loc[r].stock_updates)
    /\ outbox' = IF mail = "raised" THEN outbox
                 ELSE Append(outbox, Mail("order", loc[r].user_email,
                                          users[SafeEmailKey(loc[r].user_email)].name,
                                          <<loc[r].order_id, loc[r].invoice_id>>,
                                          mail = "sent"))
    /\ Return(r, [NoResp EXCEPT !.status = 200, !.success = TRUE,
                                !.orderId = loc[r].order_id,
                                !.invoiceId = loc[r].invoice_id])
    /\ UNCHANGED <<session, stock_notifications, bucket, users, existing_ids, now, loc>>

(***************************************************************************)
(* request_return.                                                         *)
(***************************************************************************)
ReturnWindowDays == 15      \* timedelta(days=15)

\* the characters re.sub(r'[^a-zA-Z0-9_-]', '_', user_name) keeps
SafeChars ==
    {"a", "b", "c", "d", "e", "f", "g", "h", "i", "j", "k", "l", "m",
     "n", "o", "p", "q", "r", "s", "t", "u", "v", "w", "x", "y", "z",
     "A", "B", "C", "D", "E", "F", "G", "H", "I", "J", "K", "L", "M",
     "N", "O", "P", "Q", "R", "S", "T", "U", "V", "W", "X", "Y", "Z",
     "0", "1", "2", "3", "4", "5", "6", "7", "8", "9", "_", "-"}

UserNameSafe(user_name) ==
    [i \in DOMAIN user_name |-> IF user_name[i] \in SafeChars THEN user_name[i] ELSE "_"]

\* object_key = f"{user_name_safe}/{return_id}/{return_id}_verification.mp4"
ObjectKey(user_name, return_id) ==
    [user |-> UserNameSafe(user_name), dir |-> return_id,
     file |-> return_id \o "_verification.mp4"]

\* only an open return request counts as processed
M_AlreadyProcessed(current_status) == current_status = "Return Requested"

\* `current_status in ['Return Requested', 'Returned']`
AlreadyProcessed(current_status) == current_status \in {"Return Requested", "Returned"}

\* the last day of the window is refused
M_WindowExpired(t, delivery_date) == t - delivery_date >= ReturnWindowDays * HoursPerDay

\* `datetime.now() - delivery_date > timedelta(days=15)`
WindowExpired(t, delivery_date) == t - delivery_date > ReturnWindowDays * HoursPerDay

\* the pickup address and contact of the request
CustomAddress == OtherAddress
CustomContact == "9000000003"

ReturnAddress(address_type, order_data) ==
    IF address_type = "same" THEN order_data.shippingAddress ELSE CustomAddress

ReturnContact(contact_type, order_data) ==
    IF contact_type = "same" THEN order_data.shippingAddress.phone ELSE CustomContact

ReturnDetails(l) ==
    [reason |-> "damaged", videoUrl |-> l.video_url,
     pickupAddress |-> ReturnAddress(l.address_type, l.order_data),
     pickupContact |-> ReturnContact(l.contact_type, l.order_data)]

FormStates == {"ok", "malformed", "incomplete"}
PickupTypes == {"same", "custom"}
OrderIdInputs == {"ORD00000", "ORD00009"}

\* from the session check and the parsing of the form to
\* `user_data_snapshot = user_ref.get()`
RR_Enter(r, s, form, order_id, address_type, contact_type) ==
    /\ pc[r] = "idle"
    /\ UNCHANGED <<aside, stored, now>>
    /\ IF ~LoggedIn(s)
       THEN /\ Return(r, ErrorResp(401, "User not logged in."))
            /\ loc' = [loc EXCEPT ![r] = Left("request_return", s)]
       ELSE IF form = "malformed"
       THEN /\ Return(r, ErrorResp(400, "Malformed request data."))
            /\ loc' = [loc EXCEPT ![r] = Left("request_return", s)]
       ELSE IF form = "incomplete"
       THEN /\ Return(r, ErrorResp(400, "Incomplete return request data."))
            /\ loc' = [loc EXCEPT ![r] = Left("request_return", s)]
       ELSE IF SafeEmailKey(session[s].user_email) \notin DOMAIN users
       THEN /\ Return(r, ErrorResp(404, "User not found."))
            /\ loc' = [loc EXCEPT ![r] = Left("request_return", s)]
       ELSE /\ pc' = [pc EXCEPT ![r] = "rr_read_order"]
            /\ loc' = [loc EXCEPT ![r] =
                    [Left("request_return", s) EXCEPT
                        !.user_email = session[s].user_email,
                        !.user_name = users[SafeEmailKey(session[s].user_email)].name,
                        !.order_id = order_id,
                        !.address_type = address_type,
                        !.contact_type = contact_type]]
            /\ UNCHANGED resp

\* `order_data = order_ref.get()` and the checks of the status and the window
RR_ReadOrder(r) ==
    /\ pc[r] = "rr_read_order"
    /\ UNCHANGED <<aside, stored, now>>
    /\ LET order_history == users[SafeEmailKey(loc[r].user_email)].order_history
           left == Left("request_return", loc[r].session_id)
       IN
       IF loc[r].order_id \notin DOMAIN order_history
       THEN /\ Return(r, ErrorResp(404, "Order not found."))
            /\ loc' = [loc EXCEPT ![r] = left]
       ELSE LET order_data == order_history[loc[r].order_id]
                current_status == order_data.status
            IN
            IF AlreadyProcessed(current_status)
            THEN /\ Return(r, ErrorResp(400, "Return already processed. Status: "
                                                    \o current_status))
                 /\ loc' = [loc EXCEPT ![r] = left]
            ELSE IF current_status # "Delivered"
            THEN /\ Return(r, ErrorResp(400, "Only delivered items can be returned."))
                 /\ loc' = [loc EXCEPT ![r] = left]
            ELSE IF order_data.deliveryDate = NoDate
            THEN /\ Return(r, ErrorResp(400, "Delivery date not found."))
                 /\ loc' = [loc EXCEPT ![r] = left]
            ELSE IF WindowExpired(now, Strptime(order_data.deliveryDate))
            THEN /\ Return(r, ErrorResp(400, "The 15-day return window has expired."))
                 /\ loc' = [loc EXCEPT ![r] = [left EXCEPT !.checked_at = now]]
            ELSE /\ pc' = [pc EXCEPT ![r] = "rr_gen_id"]
                 /\ loc' = [loc EXCEPT ![r].order_data = order_data,
                                       ![r].checked_at = now]
                 /\ UNCHANGED resp

\* one round of the loop of generate_unique_id('RET', 'returns')
RR_GenId(r, n) ==
    /\ pc[r] = "rr_gen_id"
    /\ UNCHANGED <<aside, stored, now, resp>>
    /\ LET new_id == NewId("RET", n) IN
       IF IdIsFree("returns", new_id)
       THEN /\ pc' = [pc EXCEPT ![r] = "rr_upload"]
            /\ loc' = [loc EXCEPT ![r].return_invoice_id = new_id]
       ELSE UNCHANGED <<pc, loc>>

\* the id of a failed upload is reserved all the same
M_RR_Upload(r, uploaded) ==
    /\ pc[r] = "rr_upload"
    /\ UNCHANGED <<session, stock_notifications, outbox, users, stockitems, now>>
    /\ IF uploaded
       THEN LET object_key == ObjectKey(loc[r].user_name, loc[r].return_invoice_id) IN
            /\ bucket' = bucket \cup {object_key}
            /\ pc' = [pc EXCEPT ![r] = "rr_write_order"]
            /\ loc' = [loc EXCEPT ![r].video_url = object_key]
            /\ UNCHANGED <<resp, existing_ids>>
       ELSE /\ Return(r, ErrorResp(500, "Video upload failed"))
            /\ loc' = [loc EXCEPT ![r] = Left("request_return", loc[r].session_id)]
            /\ existing_ids' = [existing_ids EXCEPT
                                    !["returns"] = @ \cup {loc[r].return_invoice_id}]
            /\ UNCHANGED bucket

\* upload_video_to_r2: the object is stored, or the upload fails
RR_Upload(r, uploaded) ==
    /\ pc[r] = "rr_upload"
    /\ UNCHANGED <<session, stock_notifications, outbox, stored, now>>
    /\ IF uploaded
       THEN LET object_key == ObjectKey(loc[r].user_name, loc[r].return_invoice_id) IN
            /\ bucket' = bucket \cup {object_key}
            /\ pc' = [pc EXCEPT ![r] = "rr_write_order"]
            /\ loc' = [loc EXCEPT ![r].video_url = object_key]
            /\ UNCHANGED resp
       ELSE /\ Return(r, ErrorResp(500, "Video upload failed"))
            /\ loc' = [loc EXCEPT ![r] = Left("request_return", loc[r].session_id)]
            /\ UNCHANGED bucket

\* `order_ref.update(updates)`
RR_WriteOrder(r) ==
    /\ pc[r] = "rr_write_order"
    /\ users' = [users EXCEPT
            ![SafeEmailKey(loc[r].user_email)].order_history[loc[r].order_id] =
                [@ EXCEPT !.status = "Return Requested",
                          !.returnInvoiceId = loc[r].return_invoice_id,
                          !.returnDetails = ReturnDetails(loc[r])]]
    /\ pc' = [pc EXCEPT ![r] = "rr_reserve_id"]
    /\ UNCHANGED <<aside, stockitems, existing_ids, now, loc, resp>>

\* `db.reference(f'existing_ids/returns/{return_invoice_id}').set(True)`, the
\* confirmation mail and the response
RR_ReserveId(r) ==
    /\ pc[r] = "rr_reserve_id"
    /\ existing_ids' = [existing_ids EXCEPT !["returns"] = @ \cup {loc[r].return_invoice_id}]
    /\ Return(r, [NoResp EXCEPT !.status = 200, !.success = TRUE,
                                !.returnInvoiceId = loc[r].return_invoice_id])
    /\ UNCHANGED <<aside, users, stockitems, now, loc>>

(***************************************************************************)
(* submit_application and withdraw_application.                            *)
(***************************************************************************)
\* the ids of careers/jobs a form can name: `str(job_info.get('id'))`
JobIds == {"1"}
JobIdInputs == JobIds \cup {"9"}
ApplicationForms == {"ok", "missing_field", "no_resume"}
ApplicationIdInputs == {"", "JOB00000", "JOB00009"}

\* object_key = f"job_applications/{application_id}/{application_id}_resume.pdf"
ResumeKey(application_id) ==
    [user |-> <<"job_applications">>, dir |-> application_id,
     file |-> application_id \o "_resume.pdf"]

ApplicationData(l) ==
    [applicationId |-> l.application_id, jobId |-> l.job_id,
     primaryEmail |-> l.user_email, secondaryEmail |-> l.user_email,
     resumeUrl |-> ResumeKey(l.application_id), status |-> "Received"]

\* what the handlers read of users/<key> when only job_applications was ever
\* written under it: every other key is absent and read with its default
BareUser ==
    [cart_items |-> <<>>, orders |-> 0, order_history |-> EmptyDict,
     name |-> <<>>, shipping_address |-> EmptyDict, job_applications |-> EmptyDict,
     phone |-> NoPhone]

\* `db.reference(f'users/{key}/job_applications/{id}').set(application_data)`
SetApplication(u, key, application_id, application_data) ==
    LET user_data == IF key \in DOMAIN u THEN u[key] ELSE BareUser
    IN Put(u, key, [user_data EXCEPT !.job_applications =
                        Put(@, application_id, application_data)])

\* `app_ref.delete()`: a node left without children is gone
DeleteApplication(u, key, application_id) ==
    LET left == [a \in DOMAIN u[key].job_applications \ {application_id} |->
                    u[key].job_applications[a]]
        user_data == [u[key] EXCEPT !.job_applications = left]
    IN IF user_data = BareUser
       THEN [k \in DOMAIN u \ {key} |-> u[k]]
       ELSE [u EXCEPT ![key] = user_data]

\* the id stays reserved
M_ReleaseId(ids, application_id) == ids

\* `db.reference(f'existing_ids/job_applications/{application_id}').delete()`
ReleaseId(ids, application_id) ==
    [ids EXCEPT !["job_applications"] = @ \ {application_id}]

\* the session check and the checks of the form
SA_Enter(r, s, form, job_id) ==
    /\ pc[r] = "idle"
    /\ UNCHANGED <<aside, stored, now>>
    /\ IF ~LoggedIn(s)
       THEN /\ Return(r, ErrorResp(401, "Authentication required. Please log in to apply."))
            /\ loc' = [loc EXCEPT ![r] = Left("submit_application", s)]
       ELSE IF form = "missing_field"
       THEN /\ Return(r, ErrorResp(400, "Missing required field"))
            /\ loc' = [loc EXCEPT ![r] = Left("submit_application", s)]
       ELSE IF form = "no_resume"
       THEN /\ Return(r, ErrorResp(400, "Resume file is required."))
            /\ loc' = [loc EXCEPT ![r] = Left("submit_application", s)]
       ELSE /\ pc' = [pc EXCEPT ![r] = "sa_gen_id"]
            /\ loc' = [loc EXCEPT ![r] =
                    [Left("submit_application", s) EXCEPT
                        !.user_email = session[s].user_email,
                        !.job_id = job_id]]
            /\ UNCHANGED resp

\* one round of the loop of generate_unique_id('JOB', 'job_applications')
SA_GenId(r, n) ==
    /\ pc[r] = "sa_gen_id"
    /\ UNCHANGED <<aside, stored, now, resp>>
    /\ LET new_id == NewId("JOB", n) IN
       IF IdIsFree("job_applications", new_id)
       THEN /\ pc' = [pc EXCEPT ![r] = "sa_upload"]
            /\ loc' = [loc EXCEPT ![r].application_id = new_id]
       ELSE UNCHANGED <<pc, loc>>

\* upload_resume_to_r2: the object is stored, or the upload fails
SA_Upload(r, uploaded) ==
    /\ pc[r] = "sa_upload"
    /\ UNCHANGED <<session, stock_notifications, outbox, stored, now>>
    /\ IF uploaded
       THEN /\ bucket' = bucket \cup {ResumeKey(loc[r].application_id)}
            /\ pc' = [pc EXCEPT ![r] = "sa_write"]
            /\ UNCHANGED <<loc, resp>>
       ELSE /\ Return(r, ErrorResp(500, "File upload failed"))
            /\ loc' = [loc EXCEPT ![r] = Left("submit_application", loc[r].session_id)]
            /\ UNCHANGED bucket

\* the application is written under the user of the session
SA_WriteApplication(r) ==
    /\ pc[r] = "sa_write"
    /\ users' = SetApplication(users, SafeEmailKey(loc[r].user_email),
                               loc[r].application_id, ApplicationData(loc[r]))
    /\ pc' = [pc EXCEPT ![r] = "sa_reserve_id"]
    /\ UNCHANGED <<aside, stockitems, existing_ids, now, loc, resp>>

\* `db.reference(f'existing_ids/job_applications/{application_id}').set(True)`
SA_ReserveId(r) ==
    /\ pc[r] = "sa_reserve_id"
    /\ existing_ids' = [existing_ids EXCEPT
                            !["job_applications"] = @ \cup {loc[r].application_id}]
    /\ pc' = [pc EXCEPT ![r] = "sa_respond"]
    /\ UNCHANGED <<aside, users, stockitems, now, loc, resp>>

\* `db.reference('careers/jobs').get()`, the confirmation mail when the job
\* is found (the SMTP server takes it or not) and the response
SA_Respond(r, sent) ==
    /\ pc[r] = "sa_respond"
    /\ outbox' = IF loc[r].job_id \in JobIds
                 THEN Append(outbox, Mail("application", loc[r].user_email, <<>>,
                                          <<loc[r].application_id>>, sent))
                 ELSE outbox
    /\ Return(r, [NoResp EXCEPT !.status = 200, !.success = TRUE,
                                !.applicationId = loc[r].application_id])
    /\ UNCHANGED <<session, stock_notifications, bucket, stored, now, loc>>

\* the session check, the application id and `application_data = app_ref.get()`
WA_Enter(r, s, application_id) ==
    /\ pc[r] = "idle"
    /\ UNCHANGED <<aside, stored, now>>
    /\ IF ~LoggedIn(s)
       THEN /\ Return(r, ErrorResp(401, "Authentication required."))
            /\ loc' = [loc EXCEPT ![r] = Left("withdraw_application", s)]
       ELSE IF application_id = ""
       THEN /\ Return(r, ErrorResp(400, "Application ID is required."))
            /\ loc' = [loc EXCEPT ![r] = Left("withdraw_application", s)]
       ELSE LET safe_email_key == SafeEmailKey(session[s].user_email) IN
            IF \/ safe_email_key \notin DOMAIN users
               \/ application_id \notin DOMAIN users[safe_email_key].job_applications
            THEN /\ Return(r, ErrorResp(404, "Application not found or you do not have permission to modify it."))
                 /\ loc' = [loc EXCEPT ![r] = Left("withdraw_application", s)]
            ELSE /\ pc' = [pc EXCEPT ![r] = "wa_delete_resume"]
                 /\ loc' = [loc EXCEPT ![r] =
                        [Left("withdraw_application", s) EXCEPT
                            !.user_email = session[s].user_email,
                            !.application_id = application_id]]
                 /\ UNCHANGED resp

\* delete_resume_from_r2: the object is deleted, or the deletion fails and the
\* handler goes on all the same
WA_DeleteResume(r, deleted) ==
    /\ pc[r] = "wa_delete_resume"
    /\ bucket' = IF deleted THEN bucket \ {ResumeKey(loc[r].application_id)} ELSE bucket
    /\ pc' = [pc EXCEPT ![r] = "wa_delete_app"]
    /\ UNCHANGED <<session, stock_notifications, outbox, stored, now, loc, resp>>

\* `app_ref.delete()`
WA_DeleteApp(r) ==
    /\ pc[r] = "wa_delete_app"
    /\ users' = IF SafeEmailKey(loc[r].user_email) \in DOMAIN users
                THEN DeleteApplication(users, SafeEmailKey(loc[r].user_email),
                                       loc[r].application_id)
                ELSE users
    /\ pc' = [pc EXCEPT ![r] = "wa_release_id"]
    /\ UNCHANGED <<aside, stockitems, existing_ids, now, loc, resp>>

\* the id is deleted from existing_ids/job_applications, and the response
WA_ReleaseId(r) ==
    /\ pc[r] = "wa_release_id"
    /\ existing_ids' = ReleaseId(existing_ids, loc[r].application_id)
    /\ Return(r, [NoResp EXCEPT !.status = 200, !.success = TRUE])
    /\ UNCHANGED <<aside, users, stockitems, now, loc>>

(***************************************************************************)
(* request_stock_notification and handle_stock_notifications.              *)
(***************************************************************************)
ProductIdInputs == {""} \cup CatalogIds
\* the lists of restocked products handle_stock_notifications is called with
RestockedLists ==
    {<<p>> : p \in CatalogIds} \cup
    {<<p, q>> : <<p, q>> \in {pq \in CatalogIds \X CatalogIds : pq[1] # pq[2]}}

ValuedCustomer == <<"V", "a", "l", "u", "e", "d">>

\* the waitlist of a product; a product nobody waits for has no node
Waitlist(notifications, product_id) ==
    IF product_id \in DOMAIN notifications THEN notifications[product_id] ELSE {}

\* the transaction of request_stock_notification on stock_notifications/<id>
AddUserToNotificationList(notifications, product_id, user_email) ==
    Put(notifications, product_id,
        Waitlist(notifications, product_id) \cup {SafeEmailKey(user_email)})

\* the session check, the product id, the transaction and the response
RSN(r, s, product_id) ==
    /\ pc[r] = "idle"
    /\ UNCHANGED <<session, bucket, outbox, stored, now>>
    /\ loc' = [loc EXCEPT ![r] = Left("request_stock_notification", s)]
    /\ IF ~LoggedIn(s)
       THEN /\ Return(r, ErrorResp(401, "Authentication required."))
            /\ UNCHANGED stock_notifications
       ELSE IF product_id = ""
       THEN /\ Return(r, ErrorResp(400, "Product ID is missing."))
            /\ UNCHANGED stock_notifications
       ELSE /\ stock_notifications' =
                    AddUserToNotificationList(stock_notifications, product_id,
                                              session[s].user_email)
            /\ Return(r, [NoResp EXCEPT !.status = 200, !.success = TRUE])

(***************************************************************************)
(* request_stock_notification with the transaction taken apart: the        *)
(* library reads the node, runs the callback on what it read and writes    *)
(* the result if the node is still what it read; if not, it starts again   *)
(* from the value it finds.  (It gives up after 25 attempts; two requests  *)
(* cannot make one of them fail twice.)                                    *)
(***************************************************************************)
\* the session check and the product id
RSN_Enter(r, s, product_id) ==
    /\ pc[r] = "idle"
    /\ UNCHANGED <<aside, stored, now>>
    /\ IF ~LoggedIn(s)
       THEN /\ Return(r, ErrorResp(401, "Authentication required."))
            /\ loc' = [loc EXCEPT ![r] = Left("request_stock_notification", s)]
       ELSE IF product_id = ""
       THEN /\ Return(r, ErrorResp(400, "Product ID is missing."))
            /\ loc' = [loc EXCEPT ![r] = Left("request_stock_notification", s)]
       ELSE /\ pc' = [pc EXCEPT ![r] = "rsn_get"]
            /\ loc' = [loc EXCEPT ![r] =
                    [Left("request_stock_notification", s) EXCEPT
                        !.user_email = session[s].user_email,
                        !.product_id = product_id]]
            /\ UNCHANGED resp

\* the read of stock_notifications/<product_id> the transaction starts from
RSN_Get(r) ==
    /\ pc[r] = "rsn_get"
    /\ loc' = [loc EXCEPT ![r].current_data =
                                Waitlist(stock_notifications, loc[r].product_id)]
    /\ pc' = [pc EXCEPT ![r] = "rsn_set"]
    /\ UNCHANGED <<aside, stored, now, resp>>

\* the write goes through whatever the node holds
M_Unchanged(node, current_data) == TRUE

\* the node is what the transaction read
Unchanged(node, current_data) == node = current_data

\* the callback on the value read and the conditional write; the response
\* when the write went through, another attempt when it did not
RSN_SetIfUnchanged(r) ==
    /\ pc[r] = "rsn_set"
    /\ UNCHANGED <<session, bucket, outbox, stored, now>>
    /\ IF Unchanged(Waitlist(stock_notifications, loc[r].product_id), loc[r].current_data)
       THEN /\ stock_notifications' =
                    Put(stock_notifications, loc[r].product_id,
                        loc[r].current_data \cup {SafeEmailKey(loc[r].user_email)})
            /\ Return(r, [NoResp EXCEPT !.status = 200, !.success = TRUE])
            /\ UNCHANGED loc
       ELSE /\ loc' = [loc EXCEPT ![r].current_data =
                                Waitlist(stock_notifications, loc[r].product_id),
                                   ![r].tries = @ + 1]
            /\ UNCHANGED <<stock_notifications, pc, resp>>

\* `user_email = safe_email_key.replace('_', '.')`
EmailOfKey(safe_email_key) == Replace(safe_email_key, "_", ".")

\* the first loop: user_email -> the restocked products the user waits for,
\* in the order of restocked_products
UserNotifications(restocked_products, all_notifications) ==
    LET emails == {EmailOfKey(k) : k \in UNION {Waitlist(all_notifications,
                        restocked_products[i]) : i \in DOMAIN restocked_products}}
    IN [user_email \in emails |->
            SelectSeq(restocked_products,
                      LAMBDA p : \E k \in Waitlist(all_notifications, p) :
                                    EmailOfKey(k) = user_email)]

\* `all_notifications = notifications_ref.get()` and the first loop
HSN_Enter(r, restocked_products) ==
    /\ pc[r] = "idle"
    /\ UNCHANGED <<aside, stored, now, resp>>
    /\ LET all_notifications == stock_notifications
           user_notifications == UserNotifications(restocked_products, all_notifications)
           left == Left("handle_stock_notifications", "")
       IN
       IF DOMAIN all_notifications = {} \/ DOMAIN user_notifications = {}
       THEN /\ pc' = [pc EXCEPT ![r] = "done"]
            /\ loc' = [loc EXCEPT ![r] = left]
       ELSE /\ pc' = [pc EXCEPT ![r] = "hsn_read_users"]
            /\ loc' = [loc EXCEPT ![r] =
                    [left EXCEPT !.restocked_products = restocked_products,
                                 !.all_notifications = all_notifications,
                                 !.user_notifications = user_notifications]]

\* the mails of the second loop, one per key of user_notifications (a dict
\* is walked in the order of insertion, which no claim reads: the users are
\* taken in any one order)
RECURSIVE StockMails(_, _, _, _)
StockMails(user_notifications, all_users_data, sent, emails) ==
    IF emails = {} THEN <<>>
    ELSE LET user_email == CHOOSE e \in emails : TRUE
             safe_email_key == SafeEmailKey(user_email)
             user_name == IF safe_email_key \in DOMAIN all_users_data
                             /\ all_users_data[safe_email_key].name # <<>>
                          THEN all_users_data[safe_email_key].name
                          ELSE ValuedCustomer
         IN <<Mail("stock", user_email, user_name, user_notifications[user_email],
                   sent[user_email])>>
            \o StockMails(user_notifications, all_users_data, sent, emails \ {user_email})

\* paths_to_delete: the (product, key) pairs of the mails
PathsToDelete(user_notifications) ==
    UNION {{<<user_notifications[e][i], SafeEmailKey(e)>> :
                i \in DOMAIN user_notifications[e]} : e \in DOMAIN user_notifications}

\* `all_users_data = db.reference('users').get()` and the second loop: a mail
\* per user, whether or not the SMTP server takes it
HSN_ReadUsers(r) ==
    /\ pc[r] = "hsn_read_users"
    /\ \E sent \in [DOMAIN loc[r].user_notifications -> BOOLEAN] :
          outbox' = outbox \o StockMails(loc[r].user_notifications, users, sent,
                                         DOMAIN loc[r].user_notifications)
    /\ loc' = [loc EXCEPT ![r].paths_to_delete = PathsToDelete(loc[r].user_notifications)]
    /\ pc' = [pc EXCEPT ![r] = "hsn_delete"]
    /\ UNCHANGED <<session, stock_notifications, bucket, stored, now, resp>>

\* the whole waitlist of a product of paths_to_delete is removed
M_DeletePaths(notifications, paths_to_delete) ==
    [p \in {q \in DOMAIN notifications :
                \A k \in notifications[q] : <<q, k>> \notin paths_to_delete} |->
        notifications[p]]

\* the multi-path update that sets every path of paths_to_delete to None
DeletePaths(notifications, paths_to_delete) ==
    LET left(p) == notifications[p] \ {k \in notifications[p] : <<p, k>> \in paths_to_delete}
    IN [p \in {q \in DOMAIN notifications : left(q) # {}} |-> left(p)]

\* `db.reference().update(paths_to_delete)`
HSN_Delete(r) ==
    /\ pc[r] = "hsn_delete"
    /\ stock_notifications' = DeletePaths(stock_notifications, loc[r].paths_to_delete)
    /\ pc' = [pc EXCEPT ![r] = "done"]
    /\ UNCHANGED <<session, bucket, outbox, stored, now, loc, resp>>

(***************************************************************************)
(* verify_login_otp.                                                       *)
(***************************************************************************)
\* str.strip() for the blank
RECURSIVE LStrip(_)
LStrip(str) == IF str # <<>> /\ Head(str) = " " THEN LStrip(Tail(str)) ELSE str

RECURSIVE RStrip(_)
RStrip(str) ==
    IF str # <<>> /\ str[Len(str)] = " " THEN RStrip(SubSeq(str, 1, Len(str) - 1)) ELSE str

Strip(str) == RStrip(LStrip(str))

\* session['otp']: none, the code that was sent
NoOtp == <<>>
SentOtp == <<"4", "2">>

\* the otp of a request body: none, the code sent, the code sent after a
\* blank, another code
OtpInputs == {<<>>, <<"4", "2">>, <<" ", "4", "2">>, <<"4", "3">>}

\* the check of the code and the two session keys of a login
VL_Enter(r, s, otp) ==
    /\ pc[r] = "idle"
    /\ UNCHANGED <<stock_notifications, bucket, outbox, stored, now>>
    /\ LET entered_otp == Strip(otp)
           actual_otp == session[s].otp
           email == session[s].email
       IN
       IF email = <<>> \/ actual_otp = NoOtp \/ entered_otp # actual_otp
       THEN /\ Return(r, ErrorResp(400, "Incorrect OTP or session expired."))
            /\ loc' = [loc EXCEPT ![r] = Left("verify_login_otp", s)]
            /\ UNCHANGED session
       ELSE /\ session' = [session EXCEPT ![s].logged_in = TRUE, ![s].user_email = email]
            /\ pc' = [pc EXCEPT ![r] = "vl_read_user"]
            /\ loc' = [loc EXCEPT ![r] = [Left("verify_login_otp", s) EXCEPT !.email = email]]
            /\ UNCHANGED resp

\* `user_data = user_ref.get()`; stored_order_count is taken from it
VL_ReadUser(r) ==
    /\ pc[r] = "vl_read_user"
    /\ UNCHANGED <<aside, stored, now, resp>>
    /\ LET safe_email_key_as_uid == SafeEmailKey(loc[r].email) IN
       IF safe_email_key_as_uid \notin DOMAIN users
       THEN /\ pc' = [pc EXCEPT ![r] = "vl_token"]
            /\ UNCHANGED loc
       ELSE /\ pc' = [pc EXCEPT ![r] = "vl_read_history"]
            /\ loc' = [loc EXCEPT ![r].stored_order_count =
                                        users[safe_email_key_as_uid].orders]

\* `actual_order_count = len(order_history) if order_history else 0`
ActualOrderCount(u, safe_email_key_as_uid) ==
    IF safe_email_key_as_uid \in DOMAIN u
    THEN Cardinality(DOMAIN u[safe_email_key_as_uid].order_history)
    ELSE 0

\* `order_history = user_ref.child('order_details/order_history').get()` and
\* the comparison of the two counts
VL_ReadHistory(r) ==
    /\ pc[r] = "vl_read_history"
    /\ UNCHANGED <<aside, stored, now, resp>>
    /\ LET actual_order_count == ActualOrderCount(users, SafeEmailKey(loc[r].email)) IN
       /\ loc' = [loc EXCEPT ![r].actual_order_count = actual_order_count]
       /\ pc' = [pc EXCEPT ![r] =
                    IF actual_order_count # loc[r].stored_order_count
                    THEN "vl_set_orders" ELSE "vl_token"]

\* `user_ref.child('orders').set(actual_order_count)`; the user node exists,
\* no handler that runs beside this one removes it
VL_SetOrders(r) ==
    /\ pc[r] = "vl_set_orders"
    /\ users' = [users EXCEPT ![SafeEmailKey(loc[r].email)].orders =
                                    loc[r].actual_order_count]
    /\ pc' = [pc EXCEPT ![r] = "vl_token"]
    /\ UNCHANGED <<aside, stockitems, existing_ids, now, loc, resp>>

\* `auth.create_custom_token(...)`, which can raise, `session.pop('otp')`,
\* `session.pop('phone')` and the response
VL_Token(r, token_created) ==
    /\ pc[r] = "vl_token"
    /\ UNCHANGED <<stock_notifications, bucket, outbox, stored, now, loc>>
    /\ IF ~token_created
       THEN /\ Return(r, ErrorResp(500, "Authentication failed on server."))
            /\ UNCHANGED session
       ELSE /\ session' = [session EXCEPT ![loc[r].session_id].otp = NoOtp,
                                           ![loc[r].session_id].phone = NoPhone]
            /\ Return(r, [NoResp EXCEPT !.status = 200, !.success = TRUE])

(***************************************************************************)
(* Sign-up and the first step of a login: request_otp, verify_otp,         *)
(* save_user_data and login_check.                                         *)
(***************************************************************************)
\* re.fullmatch(r"[\w\.-]+@[\w\.-]+\.\w{2,}", email)
ValidateEmail(email) ==
    LET WordChars == SafeChars \ {"-"}              \* \w
        AddressChars == SafeChars \cup {"."}        \* [\w\.-]
        AllIn(str, chars) == \A i \in DOMAIN str : str[i] \in chars
    IN
    \E i \in DOMAIN email :
        /\ email[i] = "@"
        /\ i > 1
        /\ AllIn(SubSeq(email, 1, i - 1), AddressChars)
        /\ \E j \in (i + 2)..Len(email) :
                /\ email[j] = "."
                /\ AllIn(SubSeq(email, i + 1, j - 1), AddressChars)
                /\ Len(email) - j >= 2
                /\ AllIn(SubSeq(email, j + 1, Len(email)), WordChars)

\* re.fullmatch(r"\+?\d{10,15}", phone)
ValidatePhone(phone) ==
    LET Digits == {"0", "1", "2", "3", "4", "5", "6", "7", "8", "9"}     \* \d
        digits == IF phone # <<>> /\ Head(phone) = "+" THEN Tail(phone) ELSE phone
    IN Len(digits) \in 10..15 /\ \A i \in DOMAIN digits : digits[i] \in Digits

\* the email of a request body: none, one that is no address, the address of
\* the registered user, an address without account after a blank
EmailInputs == {<<>>, <<"g", "@">>, AliceEmail, <<" ">> \o GuestEmail}

\* the phone of a request body: too short, the registered user's, another
PhoneInputs ==
    {<<"9", "0">>, SamplePhone, <<"9", "0", "0", "0", "0", "0", "0", "0", "0", "2">>}

\* str(random.randint(100000, 999999)): two of the codes
IssuedOtps == {<<"4", "2">>, <<"4", "3">>}

\* session['otp'], session['email'] and session['phone']
SetOtpSession(sessions, s, otp, email, phone) ==
    [sessions EXCEPT ![s].otp = otp, ![s].email = email, ![s].phone = phone]

\* request_otp: the checks of the body, `user_ref.get()`, the three session
\* keys and send_otp_email, which tells whether the mail went out
RO(r, s, email_in, phone_in, otp, sent) ==
    /\ pc[r] = "idle"
    /\ loc' = [loc EXCEPT ![r] = Left("request_otp", s)]
    /\ UNCHANGED <<stock_notifications, bucket, stored, now>>
    /\ LET email == Strip(email_in)
           phone == Strip(phone_in)
       IN
       IF email = <<>> \/ ~ValidateEmail(email)
       THEN /\ Return(r, ErrorResp(400, "Invalid email"))
            /\ UNCHANGED <<session, outbox>>
       ELSE IF phone = <<>> \/ ~ValidatePhone(phone)
       THEN /\ Return(r, ErrorResp(400, "Invalid phone"))
            /\ UNCHANGED <<session, outbox>>
       ELSE IF SafeEmailKey(email) \in DOMAIN users
       THEN /\ Return(r, ErrorResp(400, "User Already exists"))
            /\ UNCHANGED <<session, outbox>>
       ELSE /\ session' = SetOtpSession(session, s, otp, email, phone)
            /\ outbox' = Append(outbox, Mail("otp", email, <<>>, otp, sent))
            /\ IF sent
               THEN Return(r, [NoResp EXCEPT !.status = 200, !.success = TRUE])
               ELSE Return(r, ErrorResp(500, "Failed to send OTP. Please try again later."))

\* verify_otp: the comparison with the code of the session; the session is
\* only read
VO(r, s, otp) ==
    /\ pc[r] = "idle"
    /\ loc' = [loc EXCEPT ![r] = Left("verify_otp", s)]
    /\ UNCHANGED <<aside, stored, now>>
    /\ LET entered_otp == Strip(otp)
           actual_otp == session[s].otp
           email == session[s].email
       IN
       IF email = <<>> \/ actual_otp = NoOtp \/ entered_otp # actual_otp
       THEN Return(r, ErrorResp(400, "Incorrect OTP or session expired."))
       ELSE Return(r, [NoResp EXCEPT !.status = 200, !.success = TRUE])

\* the name and the organization of the profile form; the fields after them
\* are filled in
ProfileInputs == [name : {<<>>, <<" ">>, <<"G", "o">>}, organization : {<<>>, <<"N">>}]

\* save_user_data: the session check and the loop over required_fields
SUD_Enter(r, s, data) ==
    /\ pc[r] = "idle"
    /\ UNCHANGED <<aside, stored, now>>
    /\ LET email == session[s].email
           phone == session[s].phone
       IN
       IF email = <<>> \/ phone = NoPhone
       THEN /\ Return(r, ErrorResp(400, "Session expired. Please start over."))
            /\ loc' = [loc EXCEPT ![r] = Left("save_user_data", s)]
       ELSE IF Strip(data.name) = <<>>
       THEN /\ Return(r, ErrorResp(400, "Field \"name\" is required"))
            /\ loc' = [loc EXCEPT ![r] = Left("save_user_data", s)]
       ELSE IF Strip(data.organization) = <<>>
       THEN /\ Return(r, ErrorResp(400, "Field \"organization\" is required"))
            /\ loc' = [loc EXCEPT ![r] = Left("save_user_data", s)]
       ELSE /\ pc' = [pc EXCEPT ![r] = "sud_get"]
            /\ loc' = [loc EXCEPT ![r] = [Left("save_user_data", s) EXCEPT
                            !.email = email, !.phone = phone, !.name = data.name]]
            /\ UNCHANGED resp

\* `db.reference('users').child(safe_email_key).get() is not None`
SUD_Get(r) ==
    /\ pc[r] = "sud_get"
    /\ UNCHANGED <<aside, stored, now, loc>>
    /\ IF SafeEmailKey(loc[r].email) \in DOMAIN users
       THEN Return(r, ErrorResp(400, "User already exists."))
       ELSE /\ pc' = [pc EXCEPT ![r] = "sud_set"]
            /\ UNCHANGED resp

\* the user_data save_user_data writes: no order, an empty cart
CreatedUser(name, phone) ==
    [cart_items |-> <<>>, orders |-> 0, order_history |-> EmptyDict,
     name |-> name, shipping_address |-> EmptyDict, job_applications |-> EmptyDict,
     phone |-> phone]

\* `db.reference('users').child(safe_email_key).set(user_data)`,
\* send_account_created_email and the response
SUD_Set(r, sent) ==
    /\ pc[r] = "sud_set"
    /\ users' = Put(users, SafeEmailKey(loc[r].email),
                    CreatedUser(loc[r].name, loc[r].phone))
    /\ outbox' = Append(outbox, Mail("account", loc[r].email, loc[r].name, <<>>, sent))
    /\ Return(r, [NoResp EXCEPT !.status = 200, !.success = TRUE])
    /\ UNCHANGED <<session, stock_notifications, bucket, stockitems, existing_ids,
                   now, loc>>

\* str.replace(' ', '').replace('-', '')
RECURSIVE Digitsonly(_)
Digitsonly(str) ==
    IF str = <<>> THEN <<>>
    ELSE IF Head(str) \in {" ", "-"} THEN Digitsonly(Tail(str))
    ELSE <<Head(str)>> \o Digitsonly(Tail(str))

\* input_phone[-10:]
LastTen(str) == IF Len(str) <= 10 THEN str ELSE SubSeq(str, Len(str) - 9, Len(str))

\* stored_phone.endswith(suffix)
EndsWith(str, suffix) ==
    /\ Len(suffix) <= Len(str)
    /\ SubSeq(str, Len(str) - Len(suffix) + 1, Len(str)) = suffix

\* login_check: the checks of the body, the user record, the comparison of
\* the phones, the three session keys and send_otp_email
LC(r, s, email_in, phone_in, otp, sent) ==
    /\ pc[r] = "idle"
    /\ loc' = [loc EXCEPT ![r] = Left("login_check", s)]
    /\ UNCHANGED <<stock_notifications, bucket, stored, now>>
    /\ LET email == Strip(email_in)
           phone == Strip(phone_in)
           safe_email_key == SafeEmailKey(email)
       IN
       IF email = <<>> \/ ~ValidateEmail(email)
       THEN /\ Return(r, ErrorResp(400, "Invalid email"))
            /\ UNCHANGED <<session, outbox>>
       ELSE IF phone = <<>> \/ ~ValidatePhone(phone)
       THEN /\ Return(r, ErrorResp(400, "Invalid phone"))
            /\ UNCHANGED <<session, outbox>>
       ELSE IF safe_email_key \notin DOMAIN users
       THEN /\ Return(r, ErrorResp(404, "Account doesn't exist"))
            /\ UNCHANGED <<session, outbox>>
       ELSE LET stored_phone == Digitsonly(users[safe_email_key].phone)
                input_phone == Digitsonly(phone)
            IN
            IF ~(EndsWith(stored_phone, LastTen(input_phone)) /\ Len(input_phone) >= 10)
            THEN /\ Return(r, ErrorResp(401, "Phone number doesn't match with the records"))
                 /\ UNCHANGED <<session, outbox>>
            ELSE /\ session' = SetOtpSession(session, s, otp, email, stored_phone)
                 /\ outbox' = Append(outbox, Mail("otp", email, <<>>, otp, sent))
                 /\ IF sent
                    THEN Return(r, [NoResp EXCEPT !.status = 200, !.success = TRUE])
                    ELSE Return(r, ErrorResp(500,
                                    "Failed to send OTP. Please try again later."))

(***************************************************************************)
(* update_cart_db_route and update_cart_in_db.                             *)
(***************************************************************************)
\* `user_cart_ref.set(cart_data)` under users/<safe_email_key>/cart_items;
\* an empty list written where no node is leaves no node
UpdateCartInDb(u, user_email, cart_data) ==
    LET safe_email_key == SafeEmailKey(user_email) IN
    IF safe_email_key \in DOMAIN u
    THEN [u EXCEPT ![safe_email_key].cart_items = cart_data]
    ELSE IF cart_data = <<>> THEN u
    ELSE Put(u, safe_email_key, [BareUser EXCEPT !.cart_items = cart_data])

\* the body of the request: user_email (none, the registered users'), and
\* cart_items, a list or not
CartBodies ==
    [user_email : {<<>>, AliceEmail, GuestEmail},
     is_list : BOOLEAN,
     cart_items : {<<>>, <<[id |-> "item002", quantity |-> 1]>>}]

\* the whole handler: the two checks of the body and update_cart_in_db, whose
\* write can fail; the session is not read
UpdateCartDbRoute(r, s, data, written) ==
    /\ pc[r] = "idle"
    /\ loc' = [loc EXCEPT ![r] = Left("update_cart_db_route", s)]
    /\ UNCHANGED <<aside, stockitems, existing_ids, now>>
    /\ IF data.user_email = <<>> \/ ~data.is_list
       THEN /\ Return(r, ErrorResp(400, "Invalid request data."))
            /\ UNCHANGED users
       ELSE IF ~written
       THEN /\ Return(r, ErrorResp(500, "Failed to update cart in database."))
            /\ UNCHANGED users
       ELSE /\ users' = UpdateCartInDb(users, data.user_email, data.cart_items)
            /\ Return(r, [NoResp EXCEPT !.status = 200, !.success = TRUE])

(***************************************************************************)
(* The initial states: one registered user with any stored cart, no order  *)
(* yet; item001 with any stock up to MaxStock, item002 with enough stock   *)
(* for any cart line; three sessions.                                      *)
(***************************************************************************)
\* the session keys the handlers read: logged_in and user_email of a login,
\* otp, email and phone of a login or a sign-up that waits for its code
InitSession ==
    session = [s \in SessionIds |->
        IF s = "anon"
        THEN [logged_in |-> FALSE, user_email |-> <<>>, otp |-> NoOtp, email |-> <<>>,
              phone |-> NoPhone]
        ELSE IF s = "alice"
        THEN [logged_in |-> TRUE, user_email |-> AliceEmail, otp |-> NoOtp,
              email |-> AliceEmail, phone |-> NoPhone]
        ELSE [logged_in |-> TRUE, user_email |-> GuestEmail, otp |-> NoOtp,
              email |-> GuestEmail, phone |-> NoPhone]]

NewUser(cart_items) ==
    [cart_items |-> cart_items, orders |-> 0, order_history |-> EmptyDict,
     name |-> AliceName, shipping_address |-> ShippingAddresses,
     job_applications |-> EmptyDict, phone |-> SamplePhone]

\* nobody waits for a product, nothing is uploaded, no mail is sent
InitAside ==
    /\ stock_notifications = EmptyDict
    /\ bucket = {}
    /\ outbox = <<>>

InitRequests ==
    /\ pc = [r \in Reqs |-> "idle"]
    /\ loc = [r \in Reqs |-> IdleLoc]
    /\ resp = [r \in Reqs |-> NoResp]

Init ==
    /\ InitSession
    /\ \E cart_items \in CartSpace :
          users = [k \in {SafeEmailKey(AliceEmail)} |-> NewUser(cart_items)]
    /\ \E stock \in 0..MaxStock :
          stockitems = [p \in CatalogIds |->
                            SampleProduct(p, IF p = "item001" THEN stock ELSE MaxQty)]
    /\ existing_ids = [c \in IdTypes |-> {}]
    /\ InitAside
    /\ now = 0
    /\ InitRequests

Next ==
    \E r \in Reqs :
        \/ \E s \in SessionIds, address_id \in AddressInputs : PO_Enter(r, s, address_id)
        \/ PO_Validate(r)
        \/ PO_WriteCart(r)
        \/ \E n \in 0..(NumIds - 1) : PO_GenOrderId(r, n)
        \/ \E n \in 0..(NumIds - 1) : PO_GenInvoiceId(r, n)
        \/ \E order_status \in OrderStatuses : PO_Commit(r, order_status)
        \/ PO_StockUpdate(r)

Spec == Init /\ [][Next]_vars

(***************************************************************************)
(* The return flow: the user has one order, in any of the five statuses,   *)
(* delivered on day DeliveredOn where it was delivered; the clock starts   *)
(* one day before the return window closes and runs past its end.          *)
(***************************************************************************)
DeliveredOn == 1        \* the day the initial order was delivered
MaxDaysPast == 1        \* days past the end of the window the clock runs
MaxHour == 1            \* hours past midnight the clock shows

AllStatuses == OrderStatuses \cup {"Return Requested", "Returned"}

FirstReturn ==
    [reason |-> "too small",
     videoUrl |-> ObjectKey(AliceName, "RET00000"),
     pickupAddress |-> HomeAddress, pickupContact |-> HomeAddress.phone]

InitialOrder(status) ==
    [orderId |-> "ORD00000", invoiceId |-> "INV00000", status |-> status,
     items |-> <<[id |-> "item002", name |-> "Urban Comfort Kurti",
                  price |-> 1299, quantity |-> 2]>>,
     shippingAddress |-> HomeAddress, totalAmount |-> 2598,
     deliveryDate |-> IF status \in {"Shipped", "Out for Delivery"}
                      THEN NoDate ELSE DeliveredOn,
     returnInvoiceId |-> IF AlreadyProcessed(status) THEN "RET00000" ELSE "",
     returnDetails |-> IF AlreadyProcessed(status) THEN FirstReturn ELSE NoReturnDetails]

InitReturn ==
    /\ InitSession
    /\ \E status \in AllStatuses :
        /\ users = [k \in {SafeEmailKey(AliceEmail)} |->
                [NewUser(<<>>) EXCEPT
                    !.orders = 1,
                    !.order_history = Put(EmptyDict, "ORD00000", InitialOrder(status))]]
        /\ existing_ids = [c \in IdTypes |->
                IF c = "orders" THEN {"ORD00000"}
                ELSE IF c = "invoices" THEN {"INV00000"}
                ELSE IF c = "returns" /\ AlreadyProcessed(status) THEN {"RET00000"}
                ELSE {}]
        /\ bucket = IF AlreadyProcessed(status)
                    THEN {ObjectKey(AliceName, "RET00000")} ELSE {}
    /\ stock_notifications = EmptyDict
    /\ outbox = <<>>
    /\ stockitems = [p \in CatalogIds |-> SampleProduct(p, MaxStock)]
    /\ now = Strptime(DeliveredOn + ReturnWindowDays - 1)
    /\ InitRequests

\* the clock moves on by an hour, or by a day
TickHour ==
    /\ now % HoursPerDay < MaxHour
    /\ now' = now + 1
    /\ UNCHANGED <<aside, stored, pc, loc, resp>>

TickDay ==
    /\ Strftime(now) < DeliveredOn + ReturnWindowDays + MaxDaysPast
    /\ now' = now + HoursPerDay
    /\ UNCHANGED <<aside, stored, pc, loc, resp>>

NextReturn ==
    \/ TickHour
    \/ TickDay
    \/ \E r \in Reqs :
        \/ \E s \in SessionIds, form \in FormStates, order_id \in OrderIdInputs,
              address_type \in PickupTypes, contact_type \in PickupTypes :
                RR_Enter(r, s, form, order_id, address_type, contact_type)
        \/ RR_ReadOrder(r)
        \/ \E n \in 0..(NumIds - 1) : RR_GenId(r, n)
        \/ \E uploaded \in BOOLEAN : RR_Upload(r, uploaded)
        \/ RR_WriteOrder(r)
        \/ RR_ReserveId(r)

SpecReturn == InitReturn /\ [][NextReturn]_vars

(***************************************************************************)
(* The waitlists: any users wait for any products; two operations, each a  *)
(* subscription or a run of handle_stock_notifications, interleave.        *)
(***************************************************************************)
WaitlistKeys == {SafeEmailKey(AliceEmail), SafeEmailKey(GuestEmail)}

InitNotify ==
    /\ InitSession
    /\ users = [k \in {SafeEmailKey(AliceEmail)} |-> NewUser(<<>>)]
    /\ stockitems = [p \in CatalogIds |-> SampleProduct(p, MaxStock)]
    /\ existing_ids = [c \in IdTypes |-> {}]
    /\ \E waiting \in [CatalogIds -> SUBSET WaitlistKeys] :
          stock_notifications = [p \in {q \in CatalogIds : waiting[q] # {}} |-> waiting[p]]
    /\ bucket = {}
    /\ outbox = <<>>
    /\ now = 0
    /\ InitRequests

NextNotify ==
    \E r \in Reqs :
        \/ \E s \in SessionIds, product_id \in ProductIdInputs : RSN(r, s, product_id)
        \/ \E restocked_products \in RestockedLists : HSN_Enter(r, restocked_products)
        \/ HSN_ReadUsers(r)
        \/ HSN_Delete(r)

SpecNotify == InitNotify /\ [][NextNotify]_vars

\* two subscriptions interleave, the attempts of their transactions included
NextSubscribe ==
    \E r \in Reqs :
        \/ \E s \in SessionIds, product_id \in ProductIdInputs : RSN_Enter(r, s, product_id)
        \/ RSN_Get(r)
        \/ RSN_SetIfUnchanged(r)

SpecSubscribe == InitNotify /\ [][NextSubscribe]_vars

(***************************************************************************)
(* Logins beside orders: a user with a delivered order and a cart, a       *)
(* session that waits for the code sent to that user, one that waits for   *)
(* the code sent to an address without an account; two concurrent          *)
(* requests, each a place_order or a verify_login_otp.                     *)
(***************************************************************************)
InitLogin ==
    /\ session = [s \in SessionIds |->
        IF s = "anon"
        THEN [logged_in |-> FALSE, user_email |-> <<>>, otp |-> SentOtp,
              email |-> AliceEmail, phone |-> SamplePhone]
        ELSE IF s = "alice"
        THEN [logged_in |-> TRUE, user_email |-> AliceEmail, otp |-> NoOtp,
              email |-> AliceEmail, phone |-> NoPhone]
        ELSE [logged_in |-> FALSE, user_email |-> <<>>, otp |-> SentOtp,
              email |-> GuestEmail, phone |-> SamplePhone]]
    /\ \E quantity \in 1..MaxQty :
        users = [k \in {SafeEmailKey(AliceEmail)} |->
            [NewUser(<<[id |-> "item001", quantity |-> quantity]>>) EXCEPT
                !.orders = 1,
                !.order_history = Put(EmptyDict, "ORD00000", InitialOrder("Delivered"))]]
    /\ \E stock \in 0..MaxStock :
          stockitems = [p \in CatalogIds |->
                            SampleProduct(p, IF p = "item001" THEN stock ELSE MaxQty)]
    /\ existing_ids = [c \in IdTypes |->
            IF c = "orders" THEN {"ORD00000"}
            ELSE IF c = "invoices" THEN {"INV00000"}
            ELSE {}]
    /\ InitAside
    /\ now = Strptime(DeliveredOn + 1)
    /\ InitRequests

NextLogin ==
    \E r \in Reqs :
        \/ \E s \in SessionIds, address_id \in AddressInputs : PO_Enter(r, s, address_id)
        \/ PO_Validate(r)
        \/ PO_WriteCart(r)
        \* one draw more than elsewhere: ORD00000 and INV00000 are taken
        \/ \E n \in 0..NumIds : PO_GenOrderId(r, n)
        \/ \E n \in 0..NumIds : PO_GenInvoiceId(r, n)
        \/ \E order_status \in OrderStatuses : PO_Commit(r, order_status)
        \/ PO_StockUpdate(r)
        \/ \E s \in SessionIds, otp \in OtpInputs : VL_Enter(r, s, otp)
        \/ VL_ReadUser(r)
        \/ VL_ReadHistory(r)
        \/ VL_SetOrders(r)
        \/ \E token_created \in BOOLEAN : VL_Token(r, token_created)

SpecLogin == InitLogin /\ [][NextLogin]_vars

(***************************************************************************)
(* Login and sign-up side by side: the registered user of InitLogin, whose *)
(* session "alice" is logged in and whose session "anon" waits for the     *)
(* code login_check has sent; the session "guest" has no key.  Two         *)
(* requests, each a request_otp, a login_check, a verify_login_otp or a    *)
(* place_order.                                                            *)
(***************************************************************************)
InitAccess ==
    /\ session = [s \in SessionIds |->
        IF s = "anon"
        THEN [logged_in |-> FALSE, user_email |-> <<>>, otp |-> SentOtp,
              email |-> AliceEmail, phone |-> SamplePhone]
        ELSE IF s = "alice"
        THEN [logged_in |-> TRUE, user_email |-> AliceEmail, otp |-> NoOtp,
              email |-> AliceEmail, phone |-> NoPhone]
        ELSE [logged_in |-> FALSE, user_email |-> <<>>, otp |-> NoOtp, email |-> <<>>,
              phone |-> NoPhone]]
    /\ users = [k \in {SafeEmailKey(AliceEmail)} |->
            [NewUser(<<[id |-> "item001", quantity |-> 1]>>) EXCEPT
                !.orders = 1,
                !.order_history = Put(EmptyDict, "ORD00000", InitialOrder("Delivered"))]]
    /\ \E stock \in 0..MaxStock :
          stockitems = [p \in CatalogIds |->
                            SampleProduct(p, IF p = "item001" THEN stock ELSE MaxQty)]
    /\ existing_ids = [c \in IdTypes |->
            IF c = "orders" THEN {"ORD00000"}
            ELSE IF c = "invoices" THEN {"INV00000"}
            ELSE {}]
    /\ InitAside
    /\ now = Strptime(DeliveredOn + 1)
    /\ InitRequests

NextAccess ==
    \/ NextLogin
    \/ \E r \in Reqs :
        \/ \E s \in SessionIds, email \in EmailInputs, phone \in PhoneInputs,
              otp \in IssuedOtps, sent \in BOOLEAN : RO(r, s, email, phone, otp, sent)
        \/ \E s \in SessionIds, email \in EmailInputs, phone \in PhoneInputs,
              otp \in IssuedOtps, sent \in BOOLEAN : LC(r, s, email, phone, otp, sent)

SpecAccess == InitAccess /\ [][NextAccess]_vars

(***************************************************************************)
(* The cart of two registered users: the first with one line of item001,   *)
(* the second with an empty cart; the sessions of InitSession.  Two        *)
(* requests, each a place_order or an update of a cart.                    *)
(***************************************************************************)
InitCart ==
    /\ InitSession
    /\ \E quantity \in 1..MaxQty :
        users = [k \in {SafeEmailKey(AliceEmail), SafeEmailKey(GuestEmail)} |->
                    IF k = SafeEmailKey(AliceEmail)
                    THEN NewUser(<<[id |-> "item001", quantity |-> quantity]>>)
                    ELSE NewUser(<<>>)]
    /\ \E stock \in 0..MaxStock :
          stockitems = [p \in CatalogIds |->
                            SampleProduct(p, IF p = "item001" THEN stock ELSE MaxQty)]
    /\ existing_ids = [c \in IdTypes |-> {}]
    /\ InitAside
    /\ now = 0
    /\ InitRequests

NextCart ==
    \/ Next
    \/ \E r \in Reqs, s \in SessionIds, data \in CartBodies, written \in BOOLEAN :
            UpdateCartDbRoute(r, s, data, written)

SpecCart == InitCart /\ [][NextCart]_vars

(***************************************************************************)
(* place_order with a database that can fail at the stock update: a user   *)
(* with one line of item001 in the cart, two concurrent requests.          *)
(***************************************************************************)
InitFail ==
    /\ InitSession
    /\ \E quantity \in 1..MaxQty :
        users = [k \in {SafeEmailKey(AliceEmail)} |->
                    NewUser(<<[id |-> "item001", quantity |-> quantity]>>)]
    /\ \E stock \in 0..MaxStock :
          stockitems = [p \in CatalogIds |->
                            SampleProduct(p, IF p = "item001" THEN stock ELSE MaxQty)]
    /\ existing_ids = [c \in IdTypes |-> {}]
    /\ InitAside
    /\ now = 0
    /\ InitRequests

NextFail ==
    \E r \in Reqs :
        \/ \E s \in SessionIds, address_id \in AddressInputs : PO_Enter(r, s, address_id)
        \/ PO_Validate(r)
        \/ PO_WriteCart(r)
        \/ \E n \in 0..(NumIds - 1) : PO_GenOrderId(r, n)
        \/ \E n \in 0..(NumIds - 1) : PO_GenInvoiceId(r, n)
        \/ \E order_status \in OrderStatuses : PO_Commit(r, order_status)
        \/ PO_StockUpdate(r)
        \/ PO_StockUpdateFails(r)

SpecFail == InitFail /\ [][NextFail]_vars

(***************************************************************************)
(* Sign-up: one registered user; a session without any key, the session    *)
(* of the registered user after the login, and a session that request_otp  *)
(* has given a code for an address without account.  Two requests, each a  *)
(* request_otp, a verify_otp or a save_user_data.                          *)
(***************************************************************************)
InitSignup ==
    /\ session = [s \in SessionIds |->
        IF s = "anon"
        THEN [logged_in |-> FALSE, user_email |-> <<>>, otp |-> NoOtp, email |-> <<>>,
              phone |-> NoPhone]
        ELSE IF s = "alice"
        THEN [logged_in |-> TRUE, user_email |-> AliceEmail, otp |-> NoOtp,
              email |-> AliceEmail, phone |-> NoPhone]
        ELSE [logged_in |-> FALSE, user_email |-> <<>>, otp |-> SentOtp,
              email |-> GuestEmail, phone |-> SamplePhone]]
    /\ users = [k \in {SafeEmailKey(AliceEmail)} |-> NewUser(<<>>)]
    /\ stockitems = [p \in CatalogIds |-> SampleProduct(p, MaxStock)]
    /\ existing_ids = [c \in IdTypes |-> {}]
    /\ InitAside
    /\ now = 0
    /\ InitRequests

NextSignup ==
    \E r \in Reqs :
        \/ \E s \in SessionIds, email \in EmailInputs, phone \in PhoneInputs,
              otp \in IssuedOtps, sent \in BOOLEAN : RO(r, s, email, phone, otp, sent)
        \/ \E s \in SessionIds, otp \in OtpInputs : VO(r, s, otp)
        \/ \E s \in SessionIds, data \in ProfileInputs : SUD_Enter(r, s, data)
        \/ SUD_Get(r)
        \/ \E sent \in BOOLEAN : SUD_Set(r, sent)

SpecSignup == InitSignup /\ [][NextSignup]_vars

(***************************************************************************)
(* place_order with its confirmation mail: a user with one line of item001 *)
(* in the cart, two concurrent requests, each mail with any outcome.       *)
(***************************************************************************)
NextMail ==
    \E r \in Reqs :
        \/ \E s \in SessionIds, address_id \in AddressInputs : PO_Enter(r, s, address_id)
        \/ PO_Validate(r)
        \/ PO_WriteCart(r)
        \/ \E n \in 0..(NumIds - 1) : PO_GenOrderId(r, n)
        \/ \E n \in 0..(NumIds - 1) : PO_GenInvoiceId(r, n)
        \/ \E order_status \in OrderStatuses : PO_Commit(r, order_status)
        \/ \E mail \in MailOutcomes : PO_StockUpdateAndMail(r, mail)

SpecMail == InitFail /\ [][NextMail]_vars

(***************************************************************************)
(* place_order over any reservation index: each of the NumIds drawable     *)
(* ids of orders and of invoices is reserved or not at the start.          *)
(* random.randint draws fairly: a value whose draw would end the loop of   *)
(* generate_unique_id is not avoided for ever.                             *)
(***************************************************************************)
DrawableIds(prefix) == {NewId(prefix, n) : n \in 0..(NumIds - 1)}

InitGen ==
    /\ InitSession
    /\ \E quantity \in 1..MaxQty :
        users = [k \in {SafeEmailKey(AliceEmail)} |->
                    NewUser(<<[id |-> "item001", quantity |-> quantity]>>)]
    /\ \E stock \in 0..MaxStock :
          stockitems = [p \in CatalogIds |->
                            SampleProduct(p, IF p = "item001" THEN stock ELSE MaxQty)]
    /\ \E orders \in SUBSET DrawableIds("ORD"), invoices \in SUBSET DrawableIds("INV") :
          existing_ids = [c \in IdTypes |->
                            IF c = "orders" THEN orders
                            ELSE IF c = "invoices" THEN invoices ELSE {}]
    /\ InitAside
    /\ now = 0
    /\ InitRequests

FairDraws ==
    \A r \in Reqs : \A n \in 0..(NumIds - 1) :
        /\ WF_vars(PO_GenOrderId(r, n))
        /\ WF_vars(PO_GenInvoiceId(r, n))

SpecGen == InitGen /\ [][Next]_vars /\ FairDraws

(***************************************************************************)
(* The whole application: a user with a cart, a delivered order and a job  *)
(* application; two requests, each to any of the five handlers.            *)
(***************************************************************************)
FirstApplication ==
    [applicationId |-> "JOB00000", jobId |-> "1",
     primaryEmail |-> AliceEmail, secondaryEmail |-> AliceEmail,
     resumeUrl |-> ResumeKey("JOB00000"), status |-> "Received"]

InitApp ==
    /\ InitSession
    /\ \E quantity \in 1..MaxQty :
        users = [k \in {SafeEmailKey(AliceEmail)} |->
            [NewUser(<<[id |-> "item001", quantity |-> quantity]>>) EXCEPT
                !.orders = 1,
                !.order_history = Put(EmptyDict, "ORD00000", InitialOrder("Delivered")),
                !.job_applications = Put(EmptyDict, "JOB00000", FirstApplication)]]
    /\ stockitems = [p \in CatalogIds |-> SampleProduct(p, MaxStock)]
    /\ existing_ids = [c \in IdTypes |->
            IF c = "orders" THEN {"ORD00000"}
            ELSE IF c = "invoices" THEN {"INV00000"}
            ELSE IF c = "job_applications" THEN {"JOB00000"}
            ELSE {}]
    /\ stock_notifications = EmptyDict
    /\ bucket = {ResumeKey("JOB00000")}
    /\ outbox = <<>>
    /\ now = Strptime(DeliveredOn + 1)
    /\ InitRequests

NextApp ==
    \E r \in Reqs :
        \/ \E s \in SessionIds, address_id \in AddressInputs : PO_Enter(r, s, address_id)
        \/ PO_Validate(r)
        \/ PO_WriteCart(r)
        \/ \E n \in 0..(NumIds - 1) : PO_GenOrderId(r, n)
        \/ \E n \in 0..(NumIds - 1) : PO_GenInvoiceId(r, n)
        \/ \E order_status \in OrderStatuses : PO_Commit(r, order_status)
        \/ PO_StockUpdate(r)
        \/ \E s \in SessionIds, form \in FormStates, order_id \in OrderIdInputs,
              address_type \in PickupTypes, contact_type \in PickupTypes :
                RR_Enter(r, s, form, order_id, address_type, contact_type)
        \/ RR_ReadOrder(r)
        \/ \E n \in 0..(NumIds - 1) : RR_GenId(r, n)
        \/ \E uploaded \in BOOLEAN : RR_Upload(r, uploaded)
        \/ RR_WriteOrder(r)
        \/ RR_ReserveId(r)
        \/ \E s \in SessionIds, form \in ApplicationForms, job_id \in JobIdInputs :
                SA_Enter(r, s, form, job_id)
        \/ \E n \in 0..(NumIds - 1) : SA_GenId(r, n)
        \/ \E uploaded \in BOOLEAN : SA_Upload(r, uploaded)
        \/ SA_WriteApplication(r)
        \/ SA_ReserveId(r)
        \/ \E sent \in BOOLEAN : SA_Respond(r, sent)
        \/ \E s \in SessionIds, application_id \in ApplicationIdInputs :
                WA_Enter(r, s, application_id)
        \/ \E deleted \in BOOLEAN : WA_DeleteResume(r, deleted)
        \/ WA_DeleteApp(r)
        \/ WA_ReleaseId(r)
        \/ \E s \in SessionIds, product_id \in ProductIdInputs : RSN(r, s, product_id)

SpecApp == InitApp /\ [][NextApp]_vars

(***************************************************************************)
(* Orders and returns with room for two new ids: the user of InitApp, two  *)
(* concurrent requests, each a place_order or a request_return.            *)
(***************************************************************************)
NextHistory ==
    \E r \in Reqs :
        \/ \E s \in SessionIds, address_id \in AddressInputs : PO_Enter(r, s, address_id)
        \/ PO_Validate(r)
        \/ PO_WriteCart(r)
        \* one draw more than elsewhere: ORD00000 and INV00000 are taken
        \/ \E n \in 0..NumIds : PO_GenOrderId(r, n)
        \/ \E n \in 0..NumIds : PO_GenInvoiceId(r, n)
        \/ \E order_status \in OrderStatuses : PO_Commit(r, order_status)
        \/ PO_StockUpdate(r)
        \/ \E s \in SessionIds, form \in FormStates, order_id \in OrderIdInputs,
              address_type \in PickupTypes, contact_type \in PickupTypes :
                RR_Enter(r, s, form, order_id, address_type, contact_type)
        \/ RR_ReadOrder(r)
        \/ \E n \in 0..(NumIds - 1) : RR_GenId(r, n)
        \/ \E uploaded \in BOOLEAN : RR_Upload(r, uploaded)
        \/ RR_WriteOrder(r)
        \/ RR_ReserveId(r)

SpecHistory == InitApp /\ [][NextHistory]_vars

(***************************************************************************)
(* What the claims below speak of.                                         *)
(***************************************************************************)
UserKey(r) == SafeEmailKey(loc[r].user_email)

\* the request has read the catalog and run the validation loop
Validated(r) == loc[r].handler = "place_order" /\ DOMAIN loc[r].all_products # {}

\* the line's product is in the catalog and in stock
Kept(item, all_products) ==
    /\ item.id \in DOMAIN all_products
    /\ all_products[item.id].availableStock > 0

\* the line is dropped or clamped
Adjusted(item, all_products) ==
    \/ ~Kept(item, all_products)
    \/ item.quantity > all_products[item.id].availableStock

ExpectedLine(item, all_products) ==
    IF item.quantity > all_products[item.id].availableStock
    THEN [id |-> item.id, quantity |-> all_products[item.id].availableStock]
    ELSE item

ExpectedCart(cart_items, all_products) ==
    LET kept == SelectSeq(cart_items, LAMBDA item : Kept(item, all_products))
    IN [i \in DOMAIN kept |-> ExpectedLine(kept[i], all_products)]

ExpectedKind(item, all_products) ==
    IF item.id \notin DOMAIN all_products THEN "unavailable"
    ELSE IF all_products[item.id].availableStock <= 0 THEN "out_of_stock"
    ELSE "reduced"

AdjustedLines(cart_items, all_products) ==
    SelectSeq(cart_items, LAMBDA item : Adjusted(item, all_products))

\* total quantity of a product over the line items of an order
RECURSIVE OrderedQuantity(_, _)
OrderedQuantity(items, product_id) ==
    IF items = <<>> THEN 0
    ELSE (IF Head(items).id = product_id THEN Head(items).quantity ELSE 0)
         + OrderedQuantity(Tail(items), product_id)

RECURSIVE SumOfItems(_)
SumOfItems(items) ==
    IF items = <<>> THEN 0
    ELSE Head(items).price * Head(items).quantity + SumOfItems(Tail(items))

(***************************************************************************)
(* C1: whenever the validation of place_order drops or clamps a line, the  *)
(* request goes on to write the validated cart (dropped lines gone,        *)
(* clamped lines at the available stock) as the user's stored cart and     *)
(* answers 409 with cart_updated; no step of the request changes anything  *)
(* else: the order history, the order counter, every product's stock and   *)
(* the reservation index stay as they were.                                *)
(***************************************************************************)
C1_CartChangeAborts ==
    [][\A r \in Reqs :
        /\ (pc[r] = "idle" /\ pc'[r] = "read_stock") => UNCHANGED stored
        /\ (/\ pc[r] = "read_stock" /\ pc'[r] # "read_stock"
            /\ \E i \in DOMAIN loc[r].cart_items :
                    Adjusted(loc[r].cart_items[i], stockitems))
           => (pc'[r] = "write_cart" /\ UNCHANGED stored)
        /\ (pc[r] = "write_cart" /\ pc'[r] # "write_cart")
           => /\ resp'[r].status = 409
              /\ resp'[r].cart_updated
              /\ ~resp'[r].success
              /\ resp'[r].updated_cart = ExpectedCart(loc[r].cart_items, loc[r].all_products)
              /\ users'[UserKey(r)].cart_items =
                    ExpectedCart(loc[r].cart_items, loc[r].all_products)
              /\ users'[UserKey(r)].order_history = users[UserKey(r)].order_history
              /\ users'[UserKey(r)].orders = users[UserKey(r)].orders
              /\ \A k \in DOMAIN users : k # UserKey(r) => users'[k] = users[k]
              /\ stockitems' = stockitems
              /\ existing_ids' = existing_ids
      ]_vars

\* a request answered 409 after one line was dropped and another clamped
C1_Witness ==
    \E r \in Reqs :
        /\ pc[r] = "done" /\ resp[r].status = 409
        /\ Len(loc[r].cart_items) = 2
        /\ Len(loc[r].validated_cart) = 1
        /\ loc[r].validated_cart[1].quantity < loc[r].cart_items[2].quantity
        /\ users[UserKey(r)].cart_items = loc[r].validated_cart

(***************************************************************************)
(* C2: the validation loop of place_order keeps, in the original order,    *)
(* exactly the lines whose product is in the catalog with stock > 0, each  *)
(* with its quantity lowered to the stock when it exceeded it and          *)
(* unchanged otherwise, and records exactly one adjustment per dropped or  *)
(* clamped line, of the matching kind, and none for an unchanged line.     *)
(***************************************************************************)
C2_ValidationResult ==
    \A r \in Reqs :
        Validated(r) =>
            LET cart_items == loc[r].cart_items
                all_products == loc[r].all_products
                adjusted == AdjustedLines(cart_items, all_products)
            IN /\ loc[r].validated_cart = ExpectedCart(cart_items, all_products)
               /\ Len(loc[r].adjustments_made) = Len(adjusted)
               /\ \A i \in DOMAIN adjusted :
                    /\ loc[r].adjustments_made[i].id = adjusted[i].id
                    /\ loc[r].adjustments_made[i].kind =
                            ExpectedKind(adjusted[i], all_products)
               /\ loc[r].cart_was_modified = (adjusted # <<>>)

\* a validated cart with a line of an unknown product and a clamped line
C2_Witness ==
    \E r \in Reqs :
        /\ Validated(r)
        /\ Len(loc[r].adjustments_made) = 2
        /\ loc[r].adjustments_made[1].kind = "unavailable"
        /\ loc[r].adjustments_made[2].kind = "reduced"
        /\ Len(loc[r].validated_cart) = 1

(***************************************************************************)
(* C3: a place_order request of a logged-in user with a resolvable address *)
(* and a non-empty cart whose every line has its product in the catalog    *)
(* read by the request, with stock > 0 and quantity <= that stock, records *)
(* no adjustment, never takes the 409 path, and when it has returned it    *)
(* has returned success with the ids of the order it committed.            *)
(***************************************************************************)
CleanCart(cart_items, all_products) ==
    /\ cart_items # <<>>
    /\ \A i \in DOMAIN cart_items :
        /\ cart_items[i].id \in DOMAIN all_products
        /\ all_products[cart_items[i].id].availableStock > 0
        /\ cart_items[i].quantity <= all_products[cart_items[i].id].availableStock

C3_CleanCartCommits ==
    \A r \in Reqs :
        (Validated(r) /\ CleanCart(loc[r].cart_items, loc[r].all_products)) =>
            /\ ~loc[r].cart_was_modified
            /\ loc[r].adjustments_made = <<>>
            /\ pc[r] \in {"gen_order_id", "gen_invoice_id", "commit", "stock_update", "done"}
            /\ pc[r] \in {"stock_update", "done"} =>
                    /\ loc[r].order_id \in DOMAIN users[UserKey(r)].order_history
                    /\ loc[r].order_id \in existing_ids["orders"]
            /\ pc[r] = "done" =>
                    /\ resp[r].status = 200 /\ resp[r].success
                    /\ ~resp[r].cart_updated /\ resp[r].adjustments = <<>>
                    /\ resp[r].orderId = loc[r].order_id
                    /\ resp[r].invoiceId = loc[r].invoice_id

\* a clean two-line cart whose order is committed and answered with success
C3_Witness ==
    \E r \in Reqs :
        /\ Validated(r) /\ CleanCart(loc[r].cart_items, loc[r].all_products)
        /\ Len(loc[r].cart_items) = 2
        /\ pc[r] = "done" /\ resp[r].success
        /\ resp[r].orderId \in DOMAIN users[UserKey(r)].order_history

(***************************************************************************)
(* C4: the commit of place_order is one step.  Any step that changes a     *)
(* user's order history or order counter, or the orders or invoices of the *)
(* reservation index, is the commit of one request, and after it the order *)
(* is in the history, the cart is empty, the counter is the value the      *)
(* request read plus one and both new ids are reserved.                    *)
(***************************************************************************)
Committed(r) ==
    /\ loc'[r].order_id \in DOMAIN users'[UserKey(r)].order_history
    /\ users'[UserKey(r)].order_history[loc'[r].order_id] = loc'[r].order_data
    /\ loc'[r].order_data.orderId = loc[r].order_id
    /\ loc'[r].order_data.invoiceId = loc[r].invoice_id
    /\ users'[UserKey(r)].cart_items = <<>>
    /\ users'[UserKey(r)].orders = loc[r].orders + 1
    /\ loc[r].order_id \in existing_ids'["orders"]
    /\ loc[r].invoice_id \in existing_ids'["invoices"]

C4_CommitIsAtomic ==
    [][/\ \A r \in Reqs : (pc[r] = "commit" /\ pc'[r] # "commit") => Committed(r)
       /\ (\/ \E k \in DOMAIN users :
                \/ users'[k].order_history # users[k].order_history
                \/ users'[k].orders # users[k].orders
           \/ existing_ids'["orders"] # existing_ids["orders"]
           \/ existing_ids'["invoices"] # existing_ids["invoices"])
          => \E r \in Reqs : pc[r] = "commit" /\ pc'[r] = "stock_update" /\ Committed(r)
      ]_vars

\* right after a commit: the order, the empty cart, the counter, both ids
C4_Witness ==
    \E r \in Reqs :
        /\ pc[r] = "stock_update"
        /\ loc[r].order_id \in DOMAIN users[UserKey(r)].order_history
        /\ users[UserKey(r)].cart_items = <<>>
        /\ users[UserKey(r)].orders = 1
        /\ loc[r].order_id \in existing_ids["orders"]
        /\ loc[r].invoice_id \in existing_ids["invoices"]
        /\ stockitems = loc[r].all_products

(***************************************************************************)
(* C5: after a successful place_order that ran alone, every product's      *)
(* availableStock is its value before the request minus the total quantity *)
(* of that product over all line items of the committed order, two lines   *)
(* of one product included; products the order does not hold keep their    *)
(* stock.                                                                  *)
(***************************************************************************)
RanAlone(r) == \A q \in Reqs \ {r} : pc[q] = "idle"

C5_StockDecrementedByOrderedQuantity ==
    [][\A r \in Reqs :
        (pc[r] = "stock_update" /\ pc'[r] = "done" /\ resp'[r].success /\ RanAlone(r))
        => \A p \in DOMAIN stockitems :
              stockitems'[p].availableStock =
                  loc[r].all_products[p].availableStock
                      - OrderedQuantity(loc[r].order_data.items, p)
      ]_vars

\* an order of two lines of one unit of item001 each, placed alone with one
\* unit in stock: the order holds two units and the stock written is 1 - 1
C5_Witness ==
    \E r \in Reqs :
        /\ pc[r] = "done" /\ resp[r].success /\ RanAlone(r)
        /\ Len(loc[r].order_data.items) = 2
        /\ OrderedQuantity(loc[r].order_data.items, "item001") = 2
        /\ loc[r].all_products["item001"].availableStock = 1
        /\ stockitems["item001"].availableStock = 0

(***************************************************************************)
(* C6: the totalAmount of a committed order is the sum over its line items *)
(* of price x quantity; the line items are, line by line, the id and       *)
(* quantity of the validated cart with the name and price of the catalog   *)
(* the same request read.                                                  *)
(***************************************************************************)
C6_TotalIsSumOfLines ==
    [][\A r \in Reqs :
        (pc[r] = "commit" /\ pc'[r] # "commit") =>
            LET order == users'[UserKey(r)].order_history[loc[r].order_id]
                validated_cart == loc[r].validated_cart
                all_products == loc[r].all_products
            IN /\ order.totalAmount = SumOfItems(order.items)
               /\ Len(order.items) = Len(validated_cart)
               /\ \A i \in DOMAIN order.items :
                    /\ order.items[i].id = validated_cart[i].id
                    /\ order.items[i].quantity = validated_cart[i].quantity
                    /\ order.items[i].price = all_products[validated_cart[i].id].price
                    /\ order.items[i].name = all_products[validated_cart[i].id].name
      ]_vars

\* a committed order of two units of item002: 2 x 1299 = 2598
C6_Witness ==
    \E r \in Reqs :
        /\ pc[r] = "done" /\ resp[r].success
        /\ resp[r].orderId \in DOMAIN users[UserKey(r)].order_history
        /\ LET order == users[UserKey(r)].order_history[resp[r].orderId]
           IN /\ Len(order.items) = 1
              /\ order.items[1].id = "item002"
              /\ order.items[1].quantity = 2
              /\ order.totalAmount = 2598

(***************************************************************************)
(* C7: in every reachable state, whatever place_order requests have run    *)
(* and however they interleaved, every product's availableStock is a       *)
(* non-negative integer.                                                   *)
(***************************************************************************)
C7_StockNeverNegative ==
    \A p \in DOMAIN stockitems : stockitems[p].availableStock \in Nat

\* two interleaved orders of the same product have both written its stock
C7_Witness ==
    /\ \A r \in Reqs :
        /\ pc[r] = "done" /\ resp[r].success
        /\ loc[r].all_products["item001"].availableStock = MaxStock
        /\ OrderedQuantity(loc[r].order_data.items, "item001") = MaxStock
    /\ stockitems["item001"].availableStock = 0

\* the order a request_return request is about, as stored
StoredOrder(r) == users[UserKey(r)].order_history[loc[r].order_id]

\* the step in which request_return reads an existing order and checks it
ChecksOrder(r) ==
    /\ pc[r] = "rr_read_order" /\ pc'[r] # "rr_read_order"
    /\ loc[r].order_id \in DOMAIN users[UserKey(r)].order_history

(***************************************************************************)
(* C8: request_return on an existing order of the logged-in user whose     *)
(* status is not "Delivered" is answered 400 and changes nothing: with     *)
(* "Return already processed" for Return Requested and Returned, with      *)
(* "Only delivered items can be returned" for Shipped and Out for          *)
(* Delivery.                                                               *)
(***************************************************************************)
C8_OnlyDeliveredIsReturned ==
    [][\A r \in Reqs :
        (ChecksOrder(r) /\ StoredOrder(r).status # "Delivered") =>
            /\ pc'[r] = "done"
            /\ resp'[r].status = 400 /\ ~resp'[r].success
            /\ resp'[r].error =
                IF StoredOrder(r).status \in {"Return Requested", "Returned"}
                THEN "Return already processed. Status: " \o StoredOrder(r).status
                ELSE "Only delivered items can be returned."
            /\ users' = users
            /\ UNCHANGED <<stockitems, existing_ids, bucket>>
      ]_vars

\* a request against a Returned order, answered "Return already processed"
C8_Witness ==
    \E r \in Reqs :
        /\ pc[r] = "done" /\ loc[r].handler = "request_return"
        /\ resp[r].status = 400
        /\ resp[r].error = "Return already processed. Status: Returned"
        /\ users[SafeEmailKey(AliceEmail)].order_history["ORD00000"].status = "Returned"

(***************************************************************************)
(* C9: for a Delivered order with delivery date T (a day, read as its      *)
(* midnight), request_return is refused with the window-expired error      *)
(* exactly when now - T > 15 days: accepted at T + 14 days and at          *)
(* T + 15 days 0 hours, refused at T + 15 days 1 hour and at T + 16 days;  *)
(* a refused request changes nothing.                                      *)
(***************************************************************************)
C9_WindowOfFifteenDays ==
    [][\A r \in Reqs :
        (/\ ChecksOrder(r)
         /\ StoredOrder(r).status = "Delivered"
         /\ StoredOrder(r).deliveryDate # NoDate) =>
            LET age == now - StoredOrder(r).deliveryDate * 24
                refused == /\ pc'[r] = "done"
                           /\ resp'[r].status = 400
                           /\ resp'[r].error = "The 15-day return window has expired."
            IN /\ refused <=> (age > 15 * 24)
               /\ ~refused => pc'[r] = "rr_gen_id"
               /\ age \in {14 * 24, 15 * 24} => ~refused
               /\ age \in {15 * 24 + 1, 16 * 24} => refused
               /\ refused => (users' = users /\ UNCHANGED <<stockitems, existing_ids, bucket>>)
      ]_vars

\* one request accepted at T + 15 days 0 hours, one refused an hour later
C9_Witness ==
    \E r, q \in Reqs :
        /\ loc[r].handler = "request_return" /\ loc[q].handler = "request_return"
        /\ loc[r].checked_at = Strptime(DeliveredOn) + 15 * 24
        /\ pc[r] = "done" /\ resp[r].success
        /\ loc[q].checked_at = Strptime(DeliveredOn) + 15 * 24 + 1
        /\ pc[q] = "done" /\ resp[q].error = "The 15-day return window has expired."

(***************************************************************************)
(* C10: a return is requested at most once per order.  Of the              *)
(* request_return requests for one order, however they interleave, at most *)
(* one succeeds, and the returnInvoiceId and returnDetails of an order,    *)
(* once written, are never overwritten.                                    *)
(***************************************************************************)
Returned(r) ==
    /\ loc[r].handler = "request_return"
    /\ pc[r] = "done" /\ resp[r].success

C10_ReturnAtMostOnce ==
    [][/\ \A r, q \in Reqs :
            (Returned(r)' /\ Returned(q)' /\ loc'[r].order_id = loc'[q].order_id) => r = q
       /\ \A k \in DOMAIN users : \A o \in DOMAIN users[k].order_history :
            users[k].order_history[o].returnInvoiceId # "" =>
                /\ users'[k].order_history[o].returnInvoiceId =
                        users[k].order_history[o].returnInvoiceId
                /\ users'[k].order_history[o].returnDetails =
                        users[k].order_history[o].returnDetails
      ]_vars

\* two requests for the same Delivered order have both succeeded, each with
\* its own return id and video; the order holds the details of one of them
C10_Witness ==
    \E r, q \in Reqs :
        /\ r # q /\ Returned(r) /\ Returned(q)
        /\ loc[r].order_id = loc[q].order_id
        /\ resp[r].returnInvoiceId # resp[q].returnInvoiceId
        /\ {resp[r].returnInvoiceId, resp[q].returnInvoiceId} \subseteq existing_ids["returns"]
        /\ {ObjectKey(AliceName, resp[r].returnInvoiceId),
            ObjectKey(AliceName, resp[q].returnInvoiceId)} \subseteq bucket
        /\ StoredOrder(r).returnInvoiceId \in {resp[r].returnInvoiceId, resp[q].returnInvoiceId}

(***************************************************************************)
(* C11: every id generate_unique_id returns is its three-letter prefix     *)
(* followed by exactly five decimal digits, the zero-padded draw, and was  *)
(* absent from existing_ids/<category> when it was probed; the step in     *)
(* which generate_unique_id returns writes nothing: not to the reservation *)
(* index, not to any other stored document or to the object store, and     *)
(* sends no mail (a round that draws a reserved id changes nothing at      *)
(* all).                                                                   *)
(***************************************************************************)
\* where generate_unique_id runs: the prefix and the category of each call
GenerateCalls ==
    {[at |-> "gen_order_id", prefix |-> "ORD", id_type |-> "orders"],
     [at |-> "gen_invoice_id", prefix |-> "INV", id_type |-> "invoices"],
     [at |-> "rr_gen_id", prefix |-> "RET", id_type |-> "returns"],
     [at |-> "sa_gen_id", prefix |-> "JOB", id_type |-> "job_applications"]}

\* the local the caller assigns the returned id to
GeneratedId(l, at) ==
    CASE at = "gen_order_id" -> l.order_id
      [] at = "gen_invoice_id" -> l.invoice_id
      [] at = "rr_gen_id" -> l.return_invoice_id
      [] at = "sa_gen_id" -> l.application_id

\* the five decimal digits of n, digit by digit
FiveDigits(n) ==
    ToString((n \div 10000) % 10) \o ToString((n \div 1000) % 10)
        \o ToString((n \div 100) % 10) \o ToString((n \div 10) % 10) \o ToString(n % 10)

C11_GeneratedIds ==
    [][\A r \in Reqs : \A g \in GenerateCalls :
        (pc[r] = g.at /\ pc'[r] # g.at) =>
            LET id == GeneratedId(loc'[r], g.at) IN
            /\ UNCHANGED <<stored, stock_notifications, bucket, outbox>>
            /\ Len(g.prefix) = 3
            /\ Len(id) = 3 + 5
            /\ \E n \in 0..(NumIds - 1) : n <= 99999 /\ id = g.prefix \o FiveDigits(n)
            /\ id \notin existing_ids[g.id_type]
      ]_vars

\* an application id returned by the second round: the first draw was reserved
C11_Witness ==
    \E r \in Reqs :
        /\ pc[r] = "sa_upload"
        /\ loc[r].application_id = "JOB00001"
        /\ "JOB00000" \in existing_ids["job_applications"]

(***************************************************************************)
(* C12, as claimed: the reservation index only grows.  An id present under *)
(* existing_ids/<category>, for any of orders, invoices, returns and       *)
(* job_applications, is present in every later state, whatever operations  *)
(* follow.                                                                 *)
(***************************************************************************)
C12_IndexOnlyGrows ==
    [][\A c \in IdTypes : existing_ids[c] \subseteq existing_ids'[c]]_vars

(***************************************************************************)
(* C12, amended: the ids of orders, invoices and returns are never removed *)
(* from the reservation index.  An id of job_applications is removed by    *)
(* one step only, the last of a withdraw_application of that very          *)
(* application, which always removes it; no other step removes any id.     *)
(***************************************************************************)
C12_IndexGrowsButForWithdrawal ==
    [][/\ \A c \in IdTypes \ {"job_applications"} :
            existing_ids[c] \subseteq existing_ids'[c]
       /\ \A id \in existing_ids["job_applications"] \ existing_ids'["job_applications"] :
            \E r \in Reqs :
                /\ loc[r].handler = "withdraw_application"
                /\ pc[r] = "wa_release_id" /\ pc'[r] = "done"
                /\ loc[r].application_id = id
       /\ \A r \in Reqs :
            (pc[r] = "wa_release_id" /\ pc'[r] = "done") =>
                loc[r].application_id \notin existing_ids'["job_applications"]
      ]_vars

\* the application JOB00000 was withdrawn and its id is free again, while the
\* ids of the order and its invoice are still reserved
C12_Witness ==
    \E r \in Reqs :
        /\ loc[r].handler = "withdraw_application"
        /\ pc[r] = "done" /\ resp[r].success
        /\ "JOB00000" \notin existing_ids["job_applications"]
        /\ "ORD00000" \in existing_ids["orders"]
        /\ "INV00000" \in existing_ids["invoices"]

(***************************************************************************)
(* C13: for every user key on the waitlist of a restocked product,         *)
(* handle_stock_notifications sends exactly one mail per user, addressed   *)
(* to the address of the user who subscribed (the address whose key the    *)
(* waitlist holds, also when the address contains an underscore), listing  *)
(* all the restocked products that user waits for; and its last step       *)
(* leaves none of the entries it read on the waitlist of a restocked       *)
(* product.                                                                *)
(***************************************************************************)
\* the addresses of the sessions that can subscribe
SubscriberEmails == {AliceEmail, GuestEmail}
SubscriberOf(safe_email_key) ==
    CHOOSE e \in SubscriberEmails : SafeEmailKey(e) = safe_email_key

\* the keys the run read on the waitlists of the restocked products
NotifiedKeys(l) ==
    UNION {Waitlist(l.all_notifications, l.restocked_products[i]) :
                i \in DOMAIN l.restocked_products}

C13_NotifiesSubscribers ==
    [][\A r \in Reqs :
        /\ (pc[r] = "hsn_read_users" /\ pc'[r] = "hsn_delete") =>
            LET mails == SubSeq(outbox', Len(outbox) + 1, Len(outbox'))
                keys == NotifiedKeys(loc[r])
            IN /\ Len(mails) = Cardinality(keys)
               /\ \A k \in keys :
                    \E i \in DOMAIN mails :
                        /\ mails[i].to = SubscriberOf(k)
                        /\ mails[i].about =
                            SelectSeq(loc[r].restocked_products,
                                      LAMBDA p : k \in Waitlist(loc[r].all_notifications, p))
        /\ (pc[r] = "hsn_delete" /\ pc'[r] = "done") =>
            \A i \in DOMAIN loc[r].restocked_products :
                Waitlist(stock_notifications', loc[r].restocked_products[i])
                    \cap Waitlist(loc[r].all_notifications,
                                  loc[r].restocked_products[i]) = {}
      ]_vars

\* the user of g_1@x.co waited for a restocked product, and the mail of the
\* run went to g.1@x.co
C13_Witness ==
    \E r \in Reqs :
        /\ loc[r].handler = "handle_stock_notifications"
        /\ pc[r] = "done"
        /\ SafeEmailKey(GuestEmail) \in NotifiedKeys(loc[r])
        /\ \E i \in DOMAIN outbox : outbox[i].to = <<"g", ".", "1", "@", "x", ".", "c", "o">>
        /\ \A i \in DOMAIN outbox : outbox[i].to # GuestEmail

(***************************************************************************)
(* C14: place_order, request_return, request_stock_notification,           *)
(* submit_application and withdraw_application called in a session that    *)
(* is not logged in answer 401 at once, and that step leaves users,        *)
(* stockitems, existing_ids, stock_notifications and the object store      *)
(* unchanged.                                                              *)
(***************************************************************************)
GuardedHandlers ==
    {"place_order", "request_return", "request_stock_notification",
     "submit_application", "withdraw_application"}

C14_NotLoggedInIs401 ==
    [][\A r \in Reqs :
        (/\ pc[r] = "idle"
         /\ pc'[r] # "idle"
         /\ loc'[r].handler \in GuardedHandlers
         /\ ~session[loc'[r].session_id].logged_in)
        => /\ pc'[r] = "done"
           /\ resp'[r].status = 401
           /\ ~resp'[r].success
           /\ UNCHANGED <<users, stockitems, existing_ids, stock_notifications, bucket>>
      ]_vars

\* two handlers of the five have turned away the session that is not logged in
C14_Witness ==
    \E r1, r2 \in Reqs :
        /\ pc[r1] = "done" /\ pc[r2] = "done"
        /\ loc[r1].handler = "submit_application"
        /\ loc[r2].handler = "request_stock_notification"
        /\ ~session[loc[r1].session_id].logged_in
        /\ ~session[loc[r2].session_id].logged_in
        /\ resp[r1].status = 401 /\ resp[r2].status = 401

(***************************************************************************)
(* C15: place_order commits an order only for a request that was made in   *)
(* a logged-in session, read a non-empty stored cart and named an address  *)
(* id that is one of the user's own shipping addresses; a call in a        *)
(* logged-in session with an empty stored cart, with no address_id or with *)
(* an address_id that is not under the user is answered with 400 and       *)
(* changes no stored state.                                                *)
(***************************************************************************)
\* the request's user has the address, and the request holds that address
OwnAddress(l) ==
    LET safe_email_key == SafeEmailKey(l.user_email) IN
    /\ safe_email_key \in DOMAIN users
    /\ l.address_id \in DOMAIN users[safe_email_key].shipping_address
    /\ l.shipping_address = users[safe_email_key].shipping_address[l.address_id]

C15_PlaceOrderPreconditions ==
    [][\A r \in Reqs :
        /\ \A s \in SessionIds, address_id \in AddressInputs :
            (PO_Enter(r, s, address_id) /\ session[s].logged_in) =>
                LET safe_email_key == SafeEmailKey(session[s].user_email)
                    refused ==
                        \/ address_id = ""
                        \/ /\ safe_email_key \in DOMAIN users
                           /\ \/ users[safe_email_key].cart_items = <<>>
                              \/ address_id \notin
                                    DOMAIN users[safe_email_key].shipping_address
                IN /\ refused => /\ pc'[r] = "done"
                                 /\ resp'[r].status = 400
                                 /\ ~resp'[r].success
                                 /\ UNCHANGED <<stored, stock_notifications, bucket>>
                   /\ pc'[r] # "done" =>
                        /\ loc'[r].cart_items = users[safe_email_key].cart_items
                        /\ loc'[r].user_email = session[s].user_email
        /\ (pc[r] = "commit" /\ pc'[r] # "commit") =>
                /\ session[loc[r].session_id].logged_in
                /\ session[loc[r].session_id].user_email = loc[r].user_email
                /\ loc[r].cart_items # <<>>
                /\ OwnAddress(loc[r])
                /\ loc[r].order_id \in DOMAIN users'[SafeEmailKey(loc[r].user_email)].order_history
      ]_vars

\* one request has committed its order, the other was refused for an
\* address id that is not among the user's
C15_Witness ==
    \E r1, r2 \in Reqs :
        /\ pc[r1] = "done" /\ resp[r1].status = 200
        /\ loc[r1].order_id \in DOMAIN users[SafeEmailKey(AliceEmail)].order_history
        /\ pc[r2] = "done" /\ resp[r2].status = 400
        /\ resp[r2].error = "Invalid shipping address selected."

(***************************************************************************)
(* C16: place_order writes the stock as the stock it read at validation    *)
(* minus the ordered quantity, whatever the stock has become since: after  *)
(* successful requests the availableStock of a product is the value one    *)
(* of them computed from its own reading, so two requests that both        *)
(* passed the stock check on the same reading leave one decrement only,    *)
(* and the committed orders can hold more units than there were in stock   *)
(* (C16_Witness).                                                          *)
(***************************************************************************)
\* the successful place_order requests that wrote the stock of a product
StockWriters(product_id) ==
    {r \in Reqs : /\ loc[r].handler = "place_order"
                  /\ pc[r] = "done" /\ resp[r].success
                  /\ product_id \in DOMAIN loc[r].stock_updates}

C16_StockIsOneRequestsDecrement ==
    \A product_id \in CatalogIds :
        /\ \A r \in StockWriters(product_id) :
              \E i \in DOMAIN loc[r].validated_cart :
                  /\ loc[r].validated_cart[i].id = product_id
                  /\ loc[r].stock_updates[product_id] =
                        loc[r].all_products[product_id].availableStock
                            - loc[r].validated_cart[i].quantity
        /\ StockWriters(product_id) # {} =>
              stockitems[product_id].availableStock \in
                    {loc[r].stock_updates[product_id] : r \in StockWriters(product_id)}

\* both requests read one unit of item001 in stock and each committed an
\* order of one unit: two units are sold, the stock is 1 - 1
C16_Witness ==
    \E r1, r2 \in Reqs :
        /\ r1 # r2
        /\ StockWriters("item001") = {r1, r2}
        /\ loc[r1].all_products["item001"].availableStock = 1
        /\ loc[r2].all_products["item001"].availableStock = 1
        /\ loc[r1].order_id # loc[r2].order_id
        /\ \A r \in {r1, r2} :
              /\ users[UserKey(r)].order_history[loc[r].order_id] = loc[r].order_data
              /\ Len(loc[r].order_data.items) = 1
        /\ OrderedQuantity(loc[r1].order_data.items, "item001")
            + OrderedQuantity(loc[r2].order_data.items, "item001") > 1
        /\ stockitems["item001"].availableStock = 0

(***************************************************************************)
(* C17: when place_order fails after the order commit and before the      *)
(* stock update, the commit has put the order in the history, cleared the  *)
(* cart, raised the counter and reserved both ids; the failing step        *)
(* changes nothing of that and no product's availableStock, answers the    *)
(* generic 500 error, and is the last step of the request: the order and   *)
(* its ids stay from then on, nothing compensates.                         *)
(***************************************************************************)
\* the request has failed after its commit
FailedAfterCommit(r) ==
    /\ loc[r].handler = "place_order"
    /\ pc[r] = "done"
    /\ resp[r].status = 500
    /\ loc[r].order_data # EmptyDict

C17_FailureAfterCommit ==
    [][\A r \in Reqs :
        /\ (pc[r] = "commit" /\ pc'[r] # "commit") =>
                /\ Committed(r)
                /\ UNCHANGED stockitems
        /\ (pc[r] = "stock_update" /\ pc'[r] = "done" /\ resp'[r].status = 500) =>
                /\ UNCHANGED <<stored, aside>>
                /\ loc[r].order_id \in DOMAIN users[UserKey(r)].order_history
                /\ loc[r].order_id \in existing_ids["orders"]
                /\ loc[r].invoice_id \in existing_ids["invoices"]
                /\ ~resp'[r].success
                /\ resp'[r].error = "An unexpected error occurred while placing your order."
                /\ resp'[r].orderId = ""
        /\ FailedAfterCommit(r) =>
                /\ UNCHANGED <<pc[r], loc[r], resp[r]>>
                /\ loc[r].order_id \in DOMAIN users'[UserKey(r)].order_history
                /\ loc[r].order_id \in existing_ids'["orders"]
                /\ loc[r].invoice_id \in existing_ids'["invoices"]
      ]_vars

\* a request that ran alone and failed: its order is in the history, the
\* cart is empty, the counter is 1, both ids are reserved and the stock is
\* the stock it read
C17_Witness ==
    \E r \in Reqs :
        /\ FailedAfterCommit(r) /\ RanAlone(r)
        /\ users[UserKey(r)].order_history[loc[r].order_id] = loc[r].order_data
        /\ users[UserKey(r)].cart_items = <<>>
        /\ users[UserKey(r)].orders = 1
        /\ loc[r].order_id \in existing_ids["orders"]
        /\ loc[r].invoice_id \in existing_ids["invoices"]
        /\ loc[r].all_products["item001"].availableStock = 1
        /\ stockitems = loc[r].all_products

(***************************************************************************)
(* C18: any two successful place_order requests, interleaved or not,       *)
(* return different order ids and different invoice ids, and no commit     *)
(* writes its order over an order that is already in the order history.    *)
(***************************************************************************)
Placed(r) ==
    /\ loc[r].handler = "place_order"
    /\ pc[r] = "done"
    /\ resp[r].success

C18_OrderIdsAreUnique ==
    [][/\ \A r1, r2 \in Reqs :
            (r1 # r2 /\ Placed(r1)' /\ Placed(r2)') =>
                /\ resp'[r1].orderId # resp'[r2].orderId
                /\ resp'[r1].invoiceId # resp'[r2].invoiceId
       /\ \A r \in Reqs :
            (pc[r] = "commit" /\ pc'[r] # "commit") =>
                loc[r].order_id \notin DOMAIN users[UserKey(r)].order_history
      ]_vars

\* both requests answered with the same order id and the same invoice id;
\* the history holds one order where two were placed
C18_Witness ==
    \E r1, r2 \in Reqs :
        /\ r1 # r2 /\ Placed(r1) /\ Placed(r2)
        /\ resp[r1].orderId = resp[r2].orderId
        /\ resp[r1].invoiceId = resp[r2].invoiceId
        /\ UserKey(r1) = UserKey(r2)
        /\ DOMAIN users[UserKey(r1)].order_history = {resp[r1].orderId}

(***************************************************************************)
(* C19: for every user, in every state with no place_order in progress,    *)
(* the stored order counter equals the number of entries of the user's     *)
(* order history, also after interleaved place_order requests of the same  *)
(* user; and when verify_login_otp answers with success for a user, the    *)
(* two are equal.                                                          *)
(***************************************************************************)
NoOrderInProgress ==
    \A r \in Reqs : loc[r].handler = "place_order" => pc[r] = "done"

CounterMatchesHistory(safe_email_key) ==
    users[safe_email_key].orders =
        Cardinality(DOMAIN users[safe_email_key].order_history)

C19_CounterMatchesHistory ==
    [][/\ NoOrderInProgress' =>
            \A safe_email_key \in DOMAIN users' : CounterMatchesHistory(safe_email_key)'
       /\ \A r \in Reqs :
            (/\ pc[r] = "vl_token" /\ pc'[r] = "done" /\ resp'[r].success
             /\ SafeEmailKey(loc[r].email) \in DOMAIN users)
            => CounterMatchesHistory(SafeEmailKey(loc[r].email))'
      ]_vars

\* two interleaved orders of one user under different ids: the history has
\* grown by two, the counter by one
C19_Witness ==
    \E r1, r2 \in Reqs :
        /\ r1 # r2 /\ Placed(r1) /\ Placed(r2)
        /\ UserKey(r1) = UserKey(r2)
        /\ loc[r1].orders = 1 /\ loc[r2].orders = 1
        /\ DOMAIN users[UserKey(r1)].order_history =
                {"ORD00000", loc[r1].order_id, loc[r2].order_id}
        /\ Cardinality(DOMAIN users[UserKey(r1)].order_history) = 3
        /\ users[UserKey(r1)].orders = 2

(***************************************************************************)
(* C20: the status of a stored order changes in one way only: from         *)
(* Delivered to Return Requested, by the write of request_return; no step  *)
(* of any operation changes it otherwise, and none moves an order from     *)
(* Return Requested or Returned to another status.                         *)
(***************************************************************************)
\* the step is the write of a request_return about that order of that user
ReturnWrittenFor(safe_email_key, order_id) ==
    \E r \in Reqs :
        /\ loc[r].handler = "request_return"
        /\ pc[r] = "rr_write_order" /\ pc'[r] # "rr_write_order"
        /\ UserKey(r) = safe_email_key
        /\ loc[r].order_id = order_id

C20_StatusMovesForward ==
    [][\A safe_email_key \in DOMAIN users \cap DOMAIN users' :
        \A order_id \in DOMAIN users[safe_email_key].order_history
                            \cap DOMAIN users'[safe_email_key].order_history :
            LET before == users[safe_email_key].order_history[order_id].status
                after == users'[safe_email_key].order_history[order_id].status
            IN before # after =>
                    /\ before = "Delivered"
                    /\ after = "Return Requested"
                    /\ ReturnWrittenFor(safe_email_key, order_id)
      ]_vars

\* the order that one request stored as Delivered stands as Shipped after
\* the commit of the other
C20_Witness ==
    \E r1, r2 \in Reqs :
        /\ r1 # r2 /\ Placed(r1) /\ Placed(r2)
        /\ UserKey(r1) = UserKey(r2)
        /\ loc[r1].order_id = loc[r2].order_id
        /\ loc[r1].order_data.status = "Delivered"
        /\ loc[r2].order_data.status = "Shipped"
        /\ users[UserKey(r1)].order_history[loc[r1].order_id].status = "Shipped"

(***************************************************************************)
(* C21: when the upload of the verification video fails, request_return    *)
(* answers 500 and that step changes no stored document and stores no      *)
(* object; after a request that ran alone the order is still Delivered,    *)
(* has no returnInvoiceId and no returnDetails, and the return id that was *)
(* generated is not in the reservation index.                              *)
(***************************************************************************)
C21_FailedUploadChangesNothing ==
    [][\A r \in Reqs :
        (pc[r] = "rr_upload" /\ pc'[r] = "done") =>
            /\ resp'[r].status = 500
            /\ ~resp'[r].success
            /\ UNCHANGED <<stored, aside>>
            /\ RanAlone(r) =>
                LET order_data == users'[UserKey(r)].order_history[loc[r].order_id] IN
                /\ order_data.status = "Delivered"
                /\ order_data.returnInvoiceId = ""
                /\ order_data.returnDetails = NoReturnDetails
                /\ loc[r].return_invoice_id \notin existing_ids'["returns"]
                /\ bucket' = {}
      ]_vars

\* a request that ran alone was refused for its upload; the order is as it
\* was delivered and no return id is reserved
C21_Witness ==
    \E r \in Reqs :
        /\ RanAlone(r)
        /\ loc[r].handler = "request_return"
        /\ pc[r] = "done"
        /\ resp[r].status = 500
        /\ resp[r].error = "Video upload failed"
        /\ users[SafeEmailKey(AliceEmail)].order_history["ORD00000"].status = "Delivered"
        /\ users[SafeEmailKey(AliceEmail)].order_history["ORD00000"].returnInvoiceId = ""
        /\ existing_ids["returns"] = {}
        /\ bucket = {}

(***************************************************************************)
(* C22: once an order is committed, its line items, its totalAmount, its   *)
(* orderId, its invoiceId and its shipping address never change: no step   *)
(* of any operation, the write of request_return and the stock updates of  *)
(* the catalog included, leaves a stored order with other values of them.  *)
(***************************************************************************)
\* the part of an order that is fixed at purchase time
Purchase(order_data) ==
    <<order_data.items, order_data.totalAmount, order_data.orderId,
      order_data.invoiceId, order_data.shippingAddress>>

C22_OrderIsImmutable ==
    [][\A safe_email_key \in DOMAIN users \cap DOMAIN users' :
        \A order_id \in DOMAIN users[safe_email_key].order_history :
            /\ order_id \in DOMAIN users'[safe_email_key].order_history
            /\ Purchase(users'[safe_email_key].order_history[order_id])
                = Purchase(users[safe_email_key].order_history[order_id])
      ]_vars

\* the order one request was told about stands in the history with the
\* invoice id of the other request
C22_Witness ==
    \E r1, r2 \in Reqs :
        /\ r1 # r2 /\ Placed(r1) /\ Placed(r2)
        /\ UserKey(r1) = UserKey(r2)
        /\ resp[r1].orderId = resp[r2].orderId
        /\ resp[r1].invoiceId # resp[r2].invoiceId
        /\ users[UserKey(r1)].order_history[resp[r1].orderId].invoiceId = resp[r2].invoiceId

(***************************************************************************)
(* C23: handle_stock_notifications sends its mails first and then, in one  *)
(* step, removes from the waitlists exactly the (product, user) pairs it   *)
(* read for the restocked products, whether or not the mail of the user    *)
(* was taken by the mail server; every other waitlist entry stays; and a   *)
(* run that finds no waitlist for a restocked product sends nothing and    *)
(* deletes nothing.                                                        *)
(***************************************************************************)
\* the waitlists as a set of (product, user key) pairs
Pairs(notifications) ==
    UNION {{<<p, k>> : k \in notifications[p]} : p \in DOMAIN notifications}

\* the pairs a run read for its restocked products
Processed(l) ==
    {pk \in Pairs(l.all_notifications) :
        \E i \in DOMAIN l.restocked_products : l.restocked_products[i] = pk[1]}

C23_DeletesProcessedPairs ==
    [][\A r \in Reqs :
        /\ (pc[r] = "idle" /\ pc'[r] = "done"
                /\ loc'[r].handler = "handle_stock_notifications") =>
                UNCHANGED <<outbox, stock_notifications>>
        /\ (pc[r] = "idle" /\ pc'[r] = "hsn_read_users") =>
                /\ Processed(loc'[r]) # {}
                /\ UNCHANGED <<outbox, stock_notifications>>
        /\ (pc[r] = "hsn_read_users" /\ pc'[r] # "hsn_read_users") =>
                /\ pc'[r] = "hsn_delete"
                /\ UNCHANGED stock_notifications
        /\ (pc[r] = "hsn_delete" /\ pc'[r] # "hsn_delete") =>
                /\ pc'[r] = "done"
                /\ UNCHANGED outbox
                /\ Pairs(stock_notifications') =
                        Pairs(stock_notifications) \ Processed(loc[r])
      ]_vars

\* a run has ended whose mail for a user was not taken by the mail server;
\* the pair of that user is gone, a pair it did not read is still there
C23_Witness ==
    \E r \in Reqs :
        /\ loc[r].handler = "handle_stock_notifications"
        /\ pc[r] = "done"
        /\ Processed(loc[r]) # {}
        /\ \E i \in DOMAIN outbox : outbox[i].kind = "stock" /\ ~outbox[i].sent
        /\ \A i \in DOMAIN outbox : ~outbox[i].sent
        /\ Pairs(stock_notifications) \cap Processed(loc[r]) = {}
        /\ Pairs(stock_notifications) # {}

(***************************************************************************)
(* C24: request_stock_notification loses no subscriber: no step takes a    *)
(* user off a waitlist, the write of a subscription adds the user of the   *)
(* request to what the waitlist holds at that moment and nothing else, so  *)
(* after any interleaving every user whose request succeeded is on the     *)
(* waitlist; the subscription of a user who is on the waitlist already     *)
(* leaves the waitlists unchanged.                                         *)
(***************************************************************************)
\* the request has subscribed its user to its product
Subscribed(r) ==
    /\ loc[r].handler = "request_stock_notification"
    /\ pc[r] = "done"
    /\ resp[r].success

Subscription(l) == <<l.product_id, SafeEmailKey(l.user_email)>>

C24_NoSubscriberIsLost ==
    [][/\ Pairs(stock_notifications) \subseteq Pairs(stock_notifications')
       /\ \A r \in Reqs :
            /\ (pc[r] = "rsn_set" /\ pc'[r] = "done") =>
                    /\ resp'[r].success
                    /\ Pairs(stock_notifications') =
                            Pairs(stock_notifications) \cup {Subscription(loc[r])}
                    /\ Subscription(loc[r]) \in Pairs(stock_notifications) =>
                            UNCHANGED stock_notifications
            /\ Subscribed(r)' => Subscription(loc'[r]) \in Pairs(stock_notifications')
      ]_vars

\* two users subscribed to one product on which nobody waited, the second
\* after the first had written between its read and its write: both are on
\* the waitlist
C24_Witness ==
    \E r1, r2 \in Reqs :
        /\ r1 # r2 /\ Subscribed(r1) /\ Subscribed(r2)
        /\ loc[r1].product_id = loc[r2].product_id
        /\ loc[r1].user_email # loc[r2].user_email
        /\ loc[r1].current_data = {}
        /\ loc[r2].tries = 1
        /\ loc[r2].current_data = {SafeEmailKey(loc[r1].user_email)}
        /\ Waitlist(stock_notifications, loc[r1].product_id) =
                {SafeEmailKey(loc[r1].user_email), SafeEmailKey(loc[r2].user_email)}


(***************************************************************************)
(* C25: generate_unique_id returns after finitely many draws whenever one  *)
(* id of the category is unreserved, under fair random draws, and never    *)
(* returns when every id of the category is reserved: a round that finds   *)
(* its draw reserved draws again, with no bound on the rounds and no       *)
(* failure outcome.                                                        *)
(***************************************************************************)
PlaceOrderCalls == {g \in GenerateCalls : g.at \in {"gen_order_id", "gen_invoice_id"}}

\* every drawable id of the category is reserved
AllReserved(g) == DrawableIds(g.prefix) \subseteq existing_ids[g.id_type]

C25_GeneratorTermination ==
    /\ \A r \in Reqs : \A g \in PlaceOrderCalls :
            (pc[r] = g.at /\ ~AllReserved(g)) ~> (pc[r] # g.at \/ AllReserved(g))
    /\ [][\A r \in Reqs : \A g \in PlaceOrderCalls :
            /\ (pc[r] = g.at /\ AllReserved(g)) =>
                    pc'[r] = g.at /\ resp'[r] = NoResp /\ loc'[r] = loc[r]
            /\ (pc[r] = g.at /\ pc'[r] # g.at) =>
                    /\ pc'[r] # "done" /\ resp'[r] = NoResp
                    /\ GeneratedId(loc'[r], g.at) \in
                            DrawableIds(g.prefix) \ existing_ids[g.id_type]
      ]_vars

\* one request got the last free order id and committed; the other is in the
\* loop of generate_unique_id with every order id reserved
C25_Witness ==
    \E r1, r2 \in Reqs :
        /\ r1 # r2
        /\ Placed(r1)
        /\ pc[r2] = "gen_order_id"
        /\ AllReserved([at |-> "gen_order_id", prefix |-> "ORD", id_type |-> "orders"])


(***************************************************************************)
(* C26: the outcome of the order-confirmation mail does not affect         *)
(* place_order.  Whether the mail is sent, is refused or raises, the last  *)
(* step of a request that has committed answers success with the orderId   *)
(* and the invoiceId; the committed order, the cleared cart, the counter,   *)
(* the reservations and the stock after the step are what they are without *)
(* any mail: only the outbox tells the outcomes apart.                     *)
(***************************************************************************)
\* one mail to the user about the order, taken by the server or not
OrderMail(l, name, sent) ==
    Mail("order", l.user_email, name, <<l.order_id, l.invoice_id>>, sent)

C26_MailDoesNotAffectOrder ==
    [][\A r \in Reqs :
        (pc[r] = "stock_update" /\ pc'[r] # "stock_update") =>
            /\ pc'[r] = "done"
            /\ resp'[r] = [NoResp EXCEPT !.status = 200, !.success = TRUE,
                                         !.orderId = loc[r].order_id,
                                         !.invoiceId = loc[r].invoice_id]
            /\ UNCHANGED <<users, existing_ids, session, stock_notifications, bucket>>
            /\ stockitems' = ApplyStockUpdates(stockitems, loc[r].stock_updates)
            /\ users'[UserKey(r)].order_history[loc[r].order_id].orderId = loc[r].order_id
            /\ \/ outbox' = outbox
               \/ \E sent \in BOOLEAN :
                    outbox' = Append(outbox, OrderMail(loc[r], users[UserKey(r)].name, sent))
      ]_vars

\* two orders placed concurrently, the mail of one taken by the server, the
\* mail of the other raising: both requests answered success
C26_Witness ==
    \E r1, r2 \in Reqs :
        /\ r1 # r2 /\ Placed(r1) /\ Placed(r2)
        /\ resp[r1].orderId # resp[r2].orderId
        /\ outbox = <<OrderMail(loc[r1], users[UserKey(r1)].name, TRUE)>>


(***************************************************************************)
(* C27, as claimed: save_user_data creates a user record only in a session *)
(* whose code verify_otp has accepted.  The step of save_user_data that    *)
(* writes users/<key> is taken by a request whose session has a finished,  *)
(* successful verify_otp; after request_otp alone, or after a verify_otp   *)
(* that refused a wrong code, no account is written.                       *)
(***************************************************************************)
\* verify_otp has accepted the code of the session
VerifiedOtp(s) ==
    \E q \in Reqs :
        /\ loc[q].handler = "verify_otp"
        /\ loc[q].session_id = s
        /\ pc[q] = "done"
        /\ resp[q].success

C27_CreatedOnlyAfterVerifiedOtp ==
    [][\A r \in Reqs :
        (pc[r] = "sud_set" /\ pc'[r] = "done") => VerifiedOtp(loc[r].session_id)
      ]_vars

\* verify_otp refused a wrong code in the session that request_otp prepared,
\* and save_user_data wrote the account of that session's address
C27_Witness ==
    \E r, q \in Reqs :
        /\ loc[r].handler = "save_user_data" /\ pc[r] = "done" /\ resp[r].success
        /\ loc[q].handler = "verify_otp" /\ pc[q] = "done" /\ resp[q].status = 400
        /\ loc[q].session_id = loc[r].session_id
        /\ session[loc[r].session_id].otp # NoOtp
        /\ SafeEmailKey(session[loc[r].session_id].email) \in DOMAIN users
        /\ users[SafeEmailKey(loc[r].email)] = CreatedUser(loc[r].name, loc[r].phone)


(***************************************************************************)
(* C28, as claimed: a verify_login_otp that answers a failure leaves the   *)
(* session not logged in.  A refusal of the code (400) changes no session  *)
(* key; after a failed creation of the custom token (500) the session is   *)
(* not marked logged_in unless another verify_login_otp has succeeded in   *)
(* it, and place_order still answers 401 to that session.                  *)
(***************************************************************************)
\* verify_login_otp has finished in the session with this status
LoginAnswered(s, status) ==
    \E q \in Reqs :
        /\ loc[q].handler = "verify_login_otp"
        /\ loc[q].session_id = s
        /\ pc[q] = "done"
        /\ resp[q].status = status

C28_FailedLoginIsNotLoggedIn ==
    [][/\ \A r \in Reqs :
            /\ (pc[r] = "idle" /\ pc'[r] = "done" /\ loc'[r].handler = "verify_login_otp")
                    => (resp'[r].status = 400 /\ UNCHANGED session)
            /\ (pc[r] = "vl_token" /\ pc'[r] = "done" /\ resp'[r].status = 500
                        /\ ~LoginAnswered(loc[r].session_id, 200))
                    => ~session'[loc[r].session_id].logged_in
       /\ \A r \in Reqs, s \in SessionIds :
            (pc[r] = "idle" /\ loc'[r].handler = "place_order" /\ loc'[r].session_id = s
                    /\ LoginAnswered(s, 500) /\ ~LoginAnswered(s, 200))
                => (pc'[r] = "done" /\ resp'[r].status = 401)
      ]_vars

\* the creation of the token failed, the only login of the session; the
\* session is logged in and an order was placed from it
C28_Witness ==
    \E r \in Reqs, s \in SessionIds :
        /\ LoginAnswered(s, 500) /\ ~LoginAnswered(s, 200)
        /\ session[s].logged_in
        /\ session[s].otp # NoOtp
        /\ Placed(r) /\ loc[r].session_id = s


(***************************************************************************)
(* C29, as claimed: in every reachable state a session is logged_in only   *)
(* for an address that has a user record; a code that request_otp issued   *)
(* (which it does only for an address without account) cannot be used with *)
(* verify_login_otp to obtain a logged-in session.                         *)
(***************************************************************************)
C29_LoggedInHasUserRecord ==
    \A s \in SessionIds :
        session[s].logged_in => SafeEmailKey(session[s].user_email) \in DOMAIN users

\* request_otp gave the session a code for an address without account, and
\* verify_login_otp took that code: the session is logged in for the address
C29_Witness ==
    \E r, q \in Reqs, s \in SessionIds :
        /\ loc[r].handler = "request_otp" /\ loc[r].session_id = s
        /\ pc[r] = "done" /\ resp[r].success
        /\ loc[q].handler = "verify_login_otp" /\ loc[q].session_id = s
        /\ pc[q] = "done" /\ resp[q].success
        /\ session[s].logged_in
        /\ session[s].user_email = GuestEmail
        /\ SafeEmailKey(GuestEmail) \notin DOMAIN users


(***************************************************************************)
(* C30, as claimed: a user's stored cart is changed only by requests made  *)
(* in that user's own logged-in session.  Whenever a step changes          *)
(* users/<key>/cart_items, the request that took the step belongs to a     *)
(* session that is logged in for the address of that key; a request from a *)
(* session that is not logged in, or that is logged in as another user,    *)
(* never changes it.                                                       *)
(***************************************************************************)
\* the session of the request is logged in for the user of the key
OwnSession(l, key) ==
    /\ l.session_id \in SessionIds
    /\ session[l.session_id].logged_in
    /\ SafeEmailKey(session[l.session_id].user_email) = key

C30_CartChangedByOwnSession ==
    [][\A key \in (DOMAIN users) \cap (DOMAIN users') :
        users'[key].cart_items # users[key].cart_items =>
            \E r \in Reqs : pc'[r] # pc[r] /\ OwnSession(loc'[r], key)
      ]_vars

\* a request of the session that is not logged in has replaced the cart of
\* the registered user, which held item001, by a line of item002
C30_Witness ==
    \E r \in Reqs :
        /\ loc[r].handler = "update_cart_db_route"
        /\ loc[r].session_id = "anon"
        /\ ~session["anon"].logged_in
        /\ pc[r] = "done" /\ resp[r].success
        /\ RanAlone(r)
        /\ users[SafeEmailKey(AliceEmail)].cart_items = <<[id |-> "item002", quantity |-> 1]>>

====
